---- MODULE Spec2Model ----
(***************************************************************************)
(* State-machine model of QCLineSimulator (src/wash_process/app.js): the   *)
(* multi-lane item lifecycle, the sensor gates, the classification         *)
(* decision tree, the alarm log and the statistics.  The two station       *)
(* sequencers, IndustrialSimulation (src/loadStep/app.js) and              *)
(* LinearFilamentSimulator (src/wash_process/app.js), follow the QC line,  *)
(* each with its own units and specification.                              *)
(*                                                                         *)
(* Units.  Lengths are in 0.025 m, times in 500 ms, so a belt speed in     *)
(* m/s times 20 is a number of length units per time unit (0.3 m/s = 6).   *)
(* Heights are in 0.1 mm, softness in 0.01 N, diameters in mm.             *)
(* Time.  The code reads Date.now() only to take differences, so the model *)
(* keeps the differences: the time since a belt's lastSpawn, the time      *)
(* since the animation loop's lastTime and the age of each animation.  The *)
(* timestamps the code only stores (timestampIn, a reading's or an alarm's *)
(* timestamp) are left out.                                                *)
(* JavaScript numbers are the integers plus NaN; every comparison with NaN *)
(* is false and every arithmetic result on NaN is NaN.                     *)
(***************************************************************************)
EXTENDS Integers, Sequences, FiniteSets, TLC

VARIABLES
    sinceTick,      \* Date.now() - lastTime of the animation loop (start)
    isPaused,
    emergencyStop,
    scenarios,      \* this.scenarios
    profiles,       \* this.profiles: name -> profile
    belts,          \* this.belts: belt id -> belt
    items,          \* this.items: item id -> item
    bins,           \* this.bins: bin id -> bin
    alarms,         \* this.alarms, newest first
    statistics,     \* this.statistics
    binAnims,       \* pending animateTobin callbacks (moveItemToBin)
    nextId,         \* number of the next item id to be generated
    uiLeft,         \* number of user-interface events the run still handles
    qcIn,           \* input of a stand-alone evaluation of evaluateQC
    qcOut,          \* its result
    industrial,     \* the IndustrialSimulation of src/loadStep/app.js
    filament        \* the LinearFilamentSimulator of src/wash_process/app.js

vars == <<sinceTick, isPaused, emergencyStop, scenarios, profiles, belts, items,
          bins, alarms, statistics, binAnims, nextId, uiLeft, qcIn, qcOut,
          industrial, filament>>

engineVars == <<sinceTick, isPaused, emergencyStop, scenarios, profiles, belts,
                items, bins, alarms, statistics, binAnims, nextId, uiLeft>>

\* the two station sequencers, which the runs of the QC line leave alone
sequencerVars == <<industrial, filament>>

\* ------------------------------------------------------------------------
\* Bounds of the model
\* ------------------------------------------------------------------------

\* items created in a run
MaxItems == 2

\* longest time the simulation stays paused, in time units
MaxPause == 4

\* user-interface events handled in a run
MaxUiEvents == 2

\* longest interval between two animation frames, in time units
MaxFrameGap == 2

\* the same two bounds for the runs that operate a single lane (SpecLane)
MaxLaneEvents == 3

MaxLaneFrameGap == 1

\* half-width of the grid of measured values around the nominal ones (QCInputs)
QCMaxDev == 4

\* clicks on the controls of the tray-cleaning simulation in a run
\* (SpecIndustrial)
MaxTrayEvents == 4

\* events on the controls of the filament simulator in a run (SpecFilament),
\* and the longest interval between two of its frames, in time units
MaxFilamentEvents == 4

MaxFilamentFrameGap == 2

\* clicks on the lane switches and the emergency stop in a run that has no
\* other events (SpecStop)
MaxStopEvents == 6

\* alarms raised, and alarm-log clearings, in a run that fills the alarm log
\* (SpecAlarm)
MaxAlarmItems == 24

MaxAlarmClears == 2

\* ------------------------------------------------------------------------
\* The pages
\* ------------------------------------------------------------------------

\* the value of a simulator whose page is not the one loaded in the run
NotLoaded == [page |-> "not loaded"]

\* ------------------------------------------------------------------------
\* JavaScript numbers
\* ------------------------------------------------------------------------

\* parseFloat of an empty or malformed form field
NaN == -1000000

IsNaN(a) == a = NaN

Sub(a, b) == IF IsNaN(a) \/ IsNaN(b) THEN NaN ELSE a - b

Add(a, b) == IF IsNaN(a) \/ IsNaN(b) THEN NaN ELSE a + b

Abs(a) == IF IsNaN(a) THEN NaN ELSE IF a < 0 THEN -a ELSE a

Lt(a, b) == ~IsNaN(a) /\ ~IsNaN(b) /\ a < b

Gt(a, b) == ~IsNaN(a) /\ ~IsNaN(b) /\ a > b

Le(a, b) == ~IsNaN(a) /\ ~IsNaN(b) /\ a <= b

Ge(a, b) == ~IsNaN(a) /\ ~IsNaN(b) /\ a >= b

\* ------------------------------------------------------------------------
\* Profile registry (initData)
\* ------------------------------------------------------------------------

ProfileNames == {"Brush-64", "Brush-95", "Brush-121"}

profilesData ==
    [n \in ProfileNames |->
        CASE n = "Brush-64" ->
                [name |-> n, diameter_mm |-> 64, target_height_mm |-> 450,
                 height_tol_mm |-> 10, softness_range_N |-> <<200, 350>>]
          [] n = "Brush-95" ->
                [name |-> n, diameter_mm |-> 95, target_height_mm |-> 500,
                 height_tol_mm |-> 10, softness_range_N |-> <<220, 320>>]
          [] n = "Brush-121" ->
                [name |-> n, diameter_mm |-> 121, target_height_mm |-> 550,
                 height_tol_mm |-> 10, softness_range_N |-> <<250, 300>>]]

\* ------------------------------------------------------------------------
\* Classification (evaluateQC)
\* ------------------------------------------------------------------------

\* fixed unit tolerance of the diameter check, in mm
DiameterTol == 1

NoResult == [status |-> "NONE", bucket |-> "NONE", reason |-> [msg |-> "", args |-> <<>>]]

\* mutant: the height check is made before the softness check
evaluateQC_HeightFirst(item, profs) ==
    IF item.profile \notin DOMAIN profs
    THEN [status |-> "ERROR", bucket |-> "RED_BIN",
          reason |-> [msg |-> "Unknown profile", args |-> <<>>]]
    ELSE
    LET profile == profs[item.profile]
        minSoftness == profile.softness_range_N[1]
        maxSoftness == profile.softness_range_N[2]
        heightDiff == Sub(item.measured_height_mm, profile.target_height_mm)
    IN  IF Ge(Abs(heightDiff), profile.height_tol_mm)
        THEN IF Ge(heightDiff, profile.height_tol_mm)
             THEN [status |-> "OVER_HEIGHT", bucket |-> "GREEN_BIN",
                   reason |-> [msg |-> "Height over target",
                               args |-> <<item.measured_height_mm, heightDiff>>]]
             ELSE [status |-> "UNDER_HEIGHT", bucket |-> "RED_BIN",
                   reason |-> [msg |-> "Height under target",
                               args |-> <<item.measured_height_mm, Abs(heightDiff)>>]]
        ELSE IF Lt(item.softness_N, minSoftness) \/ Gt(item.softness_N, maxSoftness)
        THEN [status |-> "SOFT_FAIL", bucket |-> "YELLOW_BIN",
              reason |-> [msg |-> "Softness outside range",
                          args |-> <<item.softness_N, minSoftness, maxSoftness>>]]
        ELSE IF Gt(Abs(Sub(item.diameter_mm, profile.diameter_mm)), DiameterTol)
        THEN [status |-> "SIZE_DOWN", bucket |-> "RED_BIN",
              reason |-> [msg |-> "Diameter doesn't match profile",
                          args |-> <<item.diameter_mm, profile.diameter_mm>>]]
        ELSE [status |-> "OK", bucket |-> "OK_BIN",
              reason |-> [msg |-> "All parameters within specification", args |-> <<>>]]

\* mutant: the size check is made before the height check
evaluateQC_SizeFirst(item, profs) ==
    IF item.profile \notin DOMAIN profs
    THEN [status |-> "ERROR", bucket |-> "RED_BIN",
          reason |-> [msg |-> "Unknown profile", args |-> <<>>]]
    ELSE
    LET profile == profs[item.profile]
        minSoftness == profile.softness_range_N[1]
        maxSoftness == profile.softness_range_N[2]
        heightDiff == Sub(item.measured_height_mm, profile.target_height_mm)
    IN  IF Lt(item.softness_N, minSoftness) \/ Gt(item.softness_N, maxSoftness)
        THEN [status |-> "SOFT_FAIL", bucket |-> "YELLOW_BIN",
              reason |-> [msg |-> "Softness outside range",
                          args |-> <<item.softness_N, minSoftness, maxSoftness>>]]
        ELSE IF Gt(Abs(Sub(item.diameter_mm, profile.diameter_mm)), DiameterTol)
        THEN [status |-> "SIZE_DOWN", bucket |-> "RED_BIN",
              reason |-> [msg |-> "Diameter doesn't match profile",
                          args |-> <<item.diameter_mm, profile.diameter_mm>>]]
        ELSE IF Ge(Abs(heightDiff), profile.height_tol_mm)
        THEN IF Ge(heightDiff, profile.height_tol_mm)
             THEN [status |-> "OVER_HEIGHT", bucket |-> "GREEN_BIN",
                   reason |-> [msg |-> "Height over target",
                               args |-> <<item.measured_height_mm, heightDiff>>]]
             ELSE [status |-> "UNDER_HEIGHT", bucket |-> "RED_BIN",
                   reason |-> [msg |-> "Height under target",
                               args |-> <<item.measured_height_mm, Abs(heightDiff)>>]]
        ELSE [status |-> "OK", bucket |-> "OK_BIN",
              reason |-> [msg |-> "All parameters within specification", args |-> <<>>]]

\* mutant: the size check uses >= instead of > (a difference of 1 fails)
evaluateQC_SizeInclusive(item, profs) ==
    IF item.profile \notin DOMAIN profs
    THEN [status |-> "ERROR", bucket |-> "RED_BIN",
          reason |-> [msg |-> "Unknown profile", args |-> <<>>]]
    ELSE
    LET profile == profs[item.profile]
        minSoftness == profile.softness_range_N[1]
        maxSoftness == profile.softness_range_N[2]
        heightDiff == Sub(item.measured_height_mm, profile.target_height_mm)
    IN  IF Lt(item.softness_N, minSoftness) \/ Gt(item.softness_N, maxSoftness)
        THEN [status |-> "SOFT_FAIL", bucket |-> "YELLOW_BIN",
              reason |-> [msg |-> "Softness outside range",
                          args |-> <<item.softness_N, minSoftness, maxSoftness>>]]
        ELSE IF Ge(Abs(heightDiff), profile.height_tol_mm)
        THEN IF Ge(heightDiff, profile.height_tol_mm)
             THEN [status |-> "OVER_HEIGHT", bucket |-> "GREEN_BIN",
                   reason |-> [msg |-> "Height over target",
                               args |-> <<item.measured_height_mm, heightDiff>>]]
             ELSE [status |-> "UNDER_HEIGHT", bucket |-> "RED_BIN",
                   reason |-> [msg |-> "Height under target",
                               args |-> <<item.measured_height_mm, Abs(heightDiff)>>]]
        ELSE IF Ge(Abs(Sub(item.diameter_mm, profile.diameter_mm)), DiameterTol)
        THEN [status |-> "SIZE_DOWN", bucket |-> "RED_BIN",
              reason |-> [msg |-> "Diameter doesn't match profile",
                          args |-> <<item.diameter_mm, profile.diameter_mm>>]]
        ELSE [status |-> "OK", bucket |-> "OK_BIN",
              reason |-> [msg |-> "All parameters within specification", args |-> <<>>]]

\* mutant: an item of an unregistered profile is passed as OK
evaluateQC_UnknownUnchecked(item, profs) ==
    IF item.profile \notin DOMAIN profs
    THEN [status |-> "OK", bucket |-> "OK_BIN",
          reason |-> [msg |-> "All parameters within specification", args |-> <<>>]]
    ELSE
    LET profile == profs[item.profile]
        \* Step 1: softness check
        minSoftness == profile.softness_range_N[1]
        maxSoftness == profile.softness_range_N[2]
        \* Step 2: height check
        heightDiff == Sub(item.measured_height_mm, profile.target_height_mm)
    IN  IF Lt(item.softness_N, minSoftness) \/ Gt(item.softness_N, maxSoftness)
        THEN [status |-> "SOFT_FAIL", bucket |-> "YELLOW_BIN",
              reason |-> [msg |-> "Softness outside range",
                          args |-> <<item.softness_N, minSoftness, maxSoftness>>]]
        ELSE IF Ge(Abs(heightDiff), profile.height_tol_mm)
        THEN IF Ge(heightDiff, profile.height_tol_mm)
             THEN [status |-> "OVER_HEIGHT", bucket |-> "GREEN_BIN",
                   reason |-> [msg |-> "Height over target",
                               args |-> <<item.measured_height_mm, heightDiff>>]]
             ELSE [status |-> "UNDER_HEIGHT", bucket |-> "RED_BIN",
                   reason |-> [msg |-> "Height under target",
                               args |-> <<item.measured_height_mm, Abs(heightDiff)>>]]
        \* Step 3: size/diameter check
        ELSE IF Gt(Abs(Sub(item.diameter_mm, profile.diameter_mm)), DiameterTol)
        THEN [status |-> "SIZE_DOWN", bucket |-> "RED_BIN",
              reason |-> [msg |-> "Diameter doesn't match profile",
                          args |-> <<item.diameter_mm, profile.diameter_mm>>]]
        ELSE [status |-> "OK", bucket |-> "OK_BIN",
              reason |-> [msg |-> "All parameters within specification", args |-> <<>>]]

evaluateQC(item, profs) ==
    IF item.profile \notin DOMAIN profs
    THEN [status |-> "ERROR", bucket |-> "RED_BIN",
          reason |-> [msg |-> "Unknown profile", args |-> <<>>]]
    ELSE
    LET profile == profs[item.profile]
        \* Step 1: softness check
        minSoftness == profile.softness_range_N[1]
        maxSoftness == profile.softness_range_N[2]
        \* Step 2: height check
        heightDiff == Sub(item.measured_height_mm, profile.target_height_mm)
    IN  IF Lt(item.softness_N, minSoftness) \/ Gt(item.softness_N, maxSoftness)
        THEN [status |-> "SOFT_FAIL", bucket |-> "YELLOW_BIN",
              reason |-> [msg |-> "Softness outside range",
                          args |-> <<item.softness_N, minSoftness, maxSoftness>>]]
        ELSE IF Ge(Abs(heightDiff), profile.height_tol_mm)
        THEN IF Ge(heightDiff, profile.height_tol_mm)
             THEN [status |-> "OVER_HEIGHT", bucket |-> "GREEN_BIN",
                   reason |-> [msg |-> "Height over target",
                               args |-> <<item.measured_height_mm, heightDiff>>]]
             ELSE [status |-> "UNDER_HEIGHT", bucket |-> "RED_BIN",
                   reason |-> [msg |-> "Height under target",
                               args |-> <<item.measured_height_mm, Abs(heightDiff)>>]]
        \* Step 3: size/diameter check
        ELSE IF Gt(Abs(Sub(item.diameter_mm, profile.diameter_mm)), DiameterTol)
        THEN [status |-> "SIZE_DOWN", bucket |-> "RED_BIN",
              reason |-> [msg |-> "Diameter doesn't match profile",
                          args |-> <<item.diameter_mm, profile.diameter_mm>>]]
        ELSE [status |-> "OK", bucket |-> "OK_BIN",
              reason |-> [msg |-> "All parameters within specification", args |-> <<>>]]

\* ------------------------------------------------------------------------
\* Stand-alone evaluations of evaluateQC
\* ------------------------------------------------------------------------

QCDevs == -QCMaxDev..QCMaxDev

\* a profile as saveProfileChanges can leave it: the tolerance and the softness
\* range retyped, NaN for a field left empty
QCEdited(p) ==
    {[p EXCEPT !.height_tol_mm = tol, !.softness_range_N = range] :
        tol \in {p.height_tol_mm, 0, -10, NaN},
        range \in {p.softness_range_N,
                   <<p.softness_range_N[2], p.softness_range_N[1]>>,
                   <<NaN, NaN>>}}

\* registries in which one profile has been edited
QCRegistries(n) == {[profilesData EXCEPT ![n] = e] : e \in QCEdited(profilesData[n])}

\* measured values on a grid around the nominal values of profile p, and NaN
QCItems(p) ==
    LET mid == (p.softness_range_N[1] + p.softness_range_N[2]) \div 2
    IN  [profile : {p.name},
         measured_height_mm : {p.target_height_mm + 5 * k : k \in QCDevs} \cup {NaN},
         softness_N : {mid + 25 * k : k \in QCDevs} \cup {NaN},
         diameter_mm : {p.diameter_mm + k : k \in QCDevs}]

QCInputs ==
    UNION {[item : QCItems(profilesData[n]), profiles : QCRegistries(n)] :
              n \in ProfileNames}
    \cup [item : {[i EXCEPT !.profile = "Brush-200"] : i \in QCItems(profilesData["Brush-64"])},
          profiles : {profilesData}]

\* ------------------------------------------------------------------------
\* Static data (initData, createSensors)
\* ------------------------------------------------------------------------

\* Date.now() - belt.lastSpawn is kept up to this value, which exceeds every
\* spawn interval; lastSpawn = 0 is this value
SpawnClockCap == 9

\* this.simulationSpeed, never changed
simulationSpeed == 1

\* belt ids in the insertion order of this.belts
BeltIds == <<"B1", "B2", "B3">>

Belts == {"B1", "B2", "B3"}

BinIds == {"OK_BIN", "RED_BIN", "GREEN_BIN", "YELLOW_BIN"}

\* x of the point where items enter a belt: belt.position.x - 2.5 = -4.5 m
SpawnX == -180

beltsData ==
    [b \in Belts |->
        CASE b = "B1" -> [id |-> b, speed_mps |-> 6, spawn_per_min |-> 18,
                          profile |-> "Brush-64", enabled |-> FALSE]
          [] b = "B2" -> [id |-> b, speed_mps |-> 5, spawn_per_min |-> 14,
                          profile |-> "Brush-95", enabled |-> FALSE]
          [] b = "B3" -> [id |-> b, speed_mps |-> 7, spawn_per_min |-> 22,
                          profile |-> "Brush-121", enabled |-> FALSE]]

\* the belts as initData stores them
initBelts ==
    [b \in Belts |->
        [id |-> b,
         speed_mps |-> beltsData[b].speed_mps,
         spawn_per_min |-> beltsData[b].spawn_per_min,
         profile |-> beltsData[b].profile,
         enabled |-> beltsData[b].enabled,
         sinceSpawn |-> SpawnClockCap,
         items |-> <<>>,
         counters |-> [ok |-> 0, red |-> 0, green |-> 0, yellow |-> 0],
         wasRunning |-> FALSE]]

\* the bins as initData stores them
initBins == [b \in BinIds |-> [id |-> b, items |-> <<>>, fillLevel |-> 0]]

\* the sensors in the insertion order of this.sensors; x = 0, 0.5 and 1 m
sensorPositions ==
    << [id |-> "S_SOFT_1",   type |-> "softness", beltId |-> "B1", x |-> 0],
       [id |-> "S_HEIGHT_1", type |-> "height",   beltId |-> "B1", x |-> 20],
       [id |-> "S_SIZE_1",   type |-> "size",     beltId |-> "B1", x |-> 40],
       [id |-> "S_SOFT_2",   type |-> "softness", beltId |-> "B2", x |-> 0],
       [id |-> "S_HEIGHT_2", type |-> "height",   beltId |-> "B2", x |-> 20],
       [id |-> "S_SIZE_2",   type |-> "size",     beltId |-> "B2", x |-> 40],
       [id |-> "S_SOFT_3",   type |-> "softness", beltId |-> "B3", x |-> 0],
       [id |-> "S_HEIGHT_3", type |-> "height",   beltId |-> "B3", x |-> 20],
       [id |-> "S_SIZE_3",   type |-> "size",     beltId |-> "B3", x |-> 40] >>

\* tolerance of a sensor gate: 0.1 m
SensorTolerance == 4

\* an item past x = 2.0 m is moved to its bin once classified
BinThreshold == 80

\* an item past x = 4 m is removed
MaxTransit == 160

\* duration of the animation of an item into its bin: 1000 ms
AnimDuration == 2

\* the alarm log keeps the last 20 alarms
MaxAlarms == 20

\* mutant: the list holds 64, the diameter of the profile Brush-64
wrongDiameters_HoldsNominal ==
    <<44, 51, 57, 64, 76, 83, 89, 102, 108, 114, 127, 133, 142, 152>>

\* wrong diameters of the wrongProduct scenario
wrongDiameters == <<44, 51, 57, 70, 76, 83, 89, 102, 108, 114, 127, 133, 142, 152>>

\* softnessDrift adds 0.5 N
SoftnessDrift == 50

ScenarioNames == {"spikeHeight", "softnessDrift", "wrongProduct"}

Min(S) == CHOOSE m \in S : \A o \in S : m <= o

\* ------------------------------------------------------------------------
\* Initial state: the simulator after its constructor
\* ------------------------------------------------------------------------

NoInput == [item |-> [profile |-> "", measured_height_mm |-> 0, softness_N |-> 0,
                      diameter_mm |-> 0],
            profiles |-> profilesData]

InitEngine ==
    /\ sinceTick = 0
    /\ isPaused = FALSE
    /\ emergencyStop = FALSE
    /\ scenarios = [s \in ScenarioNames |-> FALSE]
    /\ profiles = profilesData
    /\ belts = initBelts
    /\ items = <<>>
    /\ bins = initBins
    /\ alarms = <<>>
    /\ statistics = [totalItems |-> 0, okCount |-> 0, redCount |-> 0,
                     greenCount |-> 0, yellowCount |-> 0]
    /\ binAnims = {}
    /\ nextId = 1

Init ==
    /\ InitEngine
    /\ industrial = NotLoaded
    /\ filament = NotLoaded
    /\ uiLeft = MaxUiEvents
    /\ qcIn = NoInput
    /\ qcOut = NoResult

\* ------------------------------------------------------------------------
\* Item creation (createBrushItem, simulateHeight, simulateSoftness)
\* ------------------------------------------------------------------------

\* variation + noise of a simulated height, in 0.1 mm (any real in the code)
HeightDraws == {0}

\* the spikeHeight scenario adds (Math.random() - 0.5) * 4 mm
SpikeDraws == {-20}

\* variation + noise of a simulated softness, in 0.01 N (any real in the code)
SoftnessDraws == {0, -125}

\* the random draws of one createBrushItem call under the scenarios scen
Draws(scen) ==
    [height : HeightDraws,
     spike : IF scen["spikeHeight"] THEN SpikeDraws ELSE {0},
     softness : SoftnessDraws,
     wrong : IF scen["wrongProduct"] THEN 1..Len(wrongDiameters) ELSE {1}]

simulateHeight(targetHeight, draw) == Add(targetHeight, draw)

\* Math.max(0, target + variation + noise), target the midpoint of the range
simulateSoftness(softnessRange, draw) ==
    LET min == softnessRange[1]
        max == softnessRange[2]
        target == IF IsNaN(Add(min, max)) THEN NaN ELSE (min + max) \div 2
        v == Add(target, draw)
    IN  IF IsNaN(v) THEN NaN ELSE IF v < 0 THEN 0 ELSE v

\* the item createBrushItem builds; w is the world [items, belts, ...]
newItem(w, id, beltId, profile, draw, scen) ==
    LET belt == w.belts[beltId]
        h0 == simulateHeight(profile.target_height_mm, draw.height)
        s0 == simulateSoftness(profile.softness_range_N, draw.softness)
    IN  [id |-> id,
         beltId |-> beltId,
         profile |-> profile.name,
         diameter_mm |-> IF scen["wrongProduct"] THEN wrongDiameters[draw.wrong]
                         ELSE profile.diameter_mm,
         target_height_mm |-> profile.target_height_mm,
         measured_height_mm |-> IF scen["spikeHeight"] THEN Add(h0, draw.spike) ELSE h0,
         softness_N |-> IF scen["softnessDrift"] THEN Add(s0, SoftnessDrift) ELSE s0,
         status |-> "PROCESSING",
         bucket |-> "null",
         qcReason |-> [msg |-> "", args |-> <<>>],
         x |-> SpawnX,
         velocity |-> belt.speed_mps,
         sensorReadings |-> <<>>]

createBrushItem(w, id, beltId, profile, draw, scen) ==
    IF ~w.belts[beltId].enabled THEN w
    ELSE [w EXCEPT
            !.items = (id :> newItem(w, id, beltId, profile, draw, scen)) @@ w.items,
            !.belts[beltId].items = Append(@, id),
            !.nextId = id + 1]

\* ------------------------------------------------------------------------
\* Spawning (spawnItems)
\* ------------------------------------------------------------------------

\* now - belt.lastSpawn > (60 / belt.spawn_per_min) * 1000 ms, times in 500 ms
SpawnDue(belt) == belt.sinceSpawn * belt.spawn_per_min > 120

\* the belts on which spawnItems creates an item
SpawningBelts(bs, profs, estop) ==
    {b \in Belts : /\ bs[b].enabled
                   /\ ~estop
                   /\ SpawnDue(bs[b])
                   /\ bs[b].profile \in DOMAIN profs}

\* mutant: an item is created on a due lane whether or not the lane is enabled
spawnOnBelt_IgnoresEnabled(w, beltId, draws, scen, estop) ==
    LET belt == w.belts[beltId]
        id == w.nextId
        draw == IF beltId \in DOMAIN draws THEN draws[beltId]
                ELSE CHOOSE d \in Draws(scen) : TRUE
    IN  IF estop THEN w
        ELSE IF SpawnDue(belt) /\ belt.profile \in DOMAIN w.profiles
        THEN [w EXCEPT
                !.items = (id :> newItem(w, id, beltId, w.profiles[belt.profile],
                                         draw, scen)) @@ w.items,
                !.belts[beltId].items = Append(@, id),
                !.belts[beltId].sinceSpawn = 0,
                !.nextId = id + 1]
        ELSE w

\* mutant: a spawn leaves the lane's lastSpawn as it was
spawnOnBelt_NoClockReset(w, beltId, draws, scen, estop) ==
    LET belt == w.belts[beltId]
    IN  IF ~belt.enabled \/ estop THEN w
        ELSE IF SpawnDue(belt) /\ belt.profile \in DOMAIN w.profiles
        THEN createBrushItem(w, w.nextId, beltId, w.profiles[belt.profile],
                             draws[beltId], scen)
        ELSE w

\* mutant: the emergency stop does not keep a due, enabled lane from spawning
spawnOnBelt_IgnoresEstop(w, beltId, draws, scen, estop) ==
    LET belt == w.belts[beltId]
        draw == IF beltId \in DOMAIN draws THEN draws[beltId]
                ELSE CHOOSE d \in Draws(scen) : TRUE
    IN  IF ~belt.enabled THEN w
        ELSE IF SpawnDue(belt) /\ belt.profile \in DOMAIN w.profiles
        THEN LET w1 == createBrushItem(w, w.nextId, beltId, w.profiles[belt.profile],
                                       draw, scen)
             IN  [w1 EXCEPT !.belts[beltId].sinceSpawn = 0]
        ELSE w

\* the body of the forEach over this.belts, for one belt
spawnOnBelt(w, beltId, draws, scen, estop) ==
    LET belt == w.belts[beltId]
    IN  IF ~belt.enabled \/ estop THEN w
        ELSE IF SpawnDue(belt) /\ belt.profile \in DOMAIN w.profiles
        THEN LET w1 == createBrushItem(w, w.nextId, beltId, w.profiles[belt.profile],
                                       draws[beltId], scen)
             IN  [w1 EXCEPT !.belts[beltId].sinceSpawn = 0]
        ELSE w

RECURSIVE spawnFrom(_, _, _, _, _)
spawnFrom(w, k, draws, scen, estop) ==
    IF k > Len(BeltIds) THEN w
    ELSE spawnFrom(spawnOnBelt(w, BeltIds[k], draws, scen, estop),
                   k + 1, draws, scen, estop)

spawnItems(w, draws, scen, estop) == spawnFrom(w, 1, draws, scen, estop)

\* ------------------------------------------------------------------------
\* Sensor gates (checkSensorInteractions)
\* ------------------------------------------------------------------------

HasReading(item, sensorId) ==
    \E k \in 1..Len(item.sensorReadings) : item.sensorReadings[k].sensorId = sensorId

SensorValue(item, type) ==
    CASE type = "softness" -> item.softness_N
      [] type = "height" -> item.measured_height_mm
      [] type = "size" -> item.diameter_mm

\* mutant: a reading is recorded whenever the item is inside the gate
checkSensor_NoDedup(item, sensor) ==
    IF sensor.beltId # item.beltId THEN item
    ELSE IF Abs(item.x - sensor.x) < SensorTolerance
    THEN [item EXCEPT !.sensorReadings =
                Append(@, [sensorId |-> sensor.id,
                           value |-> SensorValue(item, sensor.type),
                           type |-> sensor.type])]
    ELSE item

\* the body of the forEach over this.sensors, for one sensor
checkSensor(item, sensor) ==
    IF sensor.beltId # item.beltId THEN item
    ELSE IF Abs(item.x - sensor.x) < SensorTolerance /\ ~HasReading(item, sensor.id)
    THEN [item EXCEPT !.sensorReadings =
                Append(@, [sensorId |-> sensor.id,
                           value |-> SensorValue(item, sensor.type),
                           type |-> sensor.type])]
    ELSE item

RECURSIVE checkSensorsFrom(_, _)
checkSensorsFrom(item, k) ==
    IF k > Len(sensorPositions) THEN item
    ELSE checkSensorsFrom(checkSensor(item, sensorPositions[k]), k + 1)

checkSensorInteractions(item) == checkSensorsFrom(item, 1)

\* ------------------------------------------------------------------------
\* Classification of an item and its bookkeeping (processItem, createAlarm)
\* ------------------------------------------------------------------------

\* `S_SOFT_${n}`, `S_HEIGHT_${n}`, `S_SIZE_${n}`, n the last character of the belt id
requiredSensors(beltId) ==
    CASE beltId = "B1" -> {"S_SOFT_1", "S_HEIGHT_1", "S_SIZE_1"}
      [] beltId = "B2" -> {"S_SOFT_2", "S_HEIGHT_2", "S_SIZE_2"}
      [] beltId = "B3" -> {"S_SOFT_3", "S_HEIGHT_3", "S_SIZE_3"}

completedSensors(item) ==
    {item.sensorReadings[k].sensorId : k \in 1..Len(item.sensorReadings)}

\* mutant: a full log drops the alarm just raised and keeps the oldest one
createAlarm_EvictsNewest(w, item, qcResult) ==
    LET alarm == [beltId |-> item.beltId,
                  itemId |-> item.id,
                  type |-> qcResult.status,
                  message |-> <<item.beltId, qcResult.reason>>,
                  severity |-> IF qcResult.bucket = "YELLOW_BIN" THEN "yellow"
                               ELSE IF qcResult.bucket = "GREEN_BIN" THEN "green"
                               ELSE "red"]
        unshifted == <<alarm>> \o w.alarms
    IN  [w EXCEPT !.alarms = IF Len(unshifted) > MaxAlarms
                             THEN SubSeq(unshifted, 2, MaxAlarms + 1)
                             ELSE unshifted]

createAlarm(w, item, qcResult) ==
    LET alarm == [beltId |-> item.beltId,
                  itemId |-> item.id,
                  type |-> qcResult.status,
                  message |-> <<item.beltId, qcResult.reason>>,
                  severity |-> IF qcResult.bucket = "YELLOW_BIN" THEN "yellow"
                               ELSE IF qcResult.bucket = "GREEN_BIN" THEN "green"
                               ELSE "red"]
        unshifted == <<alarm>> \o w.alarms
    IN  [w EXCEPT !.alarms = IF Len(unshifted) > MaxAlarms
                             THEN SubSeq(unshifted, 1, MaxAlarms)
                             ELSE unshifted]

\* the counters processItem increments for a result
countResult(w, beltId, qcResult) ==
    LET w1 ==
          IF qcResult.status = "OK"
          THEN [w EXCEPT !.belts[beltId].counters.ok = @ + 1,
                         !.statistics.okCount = @ + 1]
          ELSE IF qcResult.bucket = "RED_BIN"
          THEN [w EXCEPT !.belts[beltId].counters.red = @ + 1,
                         !.statistics.redCount = @ + 1]
          ELSE IF qcResult.bucket = "GREEN_BIN"
          THEN [w EXCEPT !.belts[beltId].counters.green = @ + 1,
                         !.statistics.greenCount = @ + 1]
          ELSE IF qcResult.bucket = "YELLOW_BIN"
          THEN [w EXCEPT !.belts[beltId].counters.yellow = @ + 1,
                         !.statistics.yellowCount = @ + 1]
          ELSE w
    IN  [w1 EXCEPT !.statistics.totalItems = @ + 1]

\* mutant: no guard on the status, an item is classified in every tick
processItem_NoGuard(w, id) ==
    LET item == w.items[id]
    IN  IF requiredSensors(item.beltId) \subseteq completedSensors(item)
        THEN LET qcResult == evaluateQC(item, w.profiles)
                 w1 == [w EXCEPT !.items[id].status = qcResult.status,
                                 !.items[id].bucket = qcResult.bucket,
                                 !.items[id].qcReason = qcResult.reason]
                 w2 == countResult(w1, item.beltId, qcResult)
             IN  IF qcResult.status # "OK"
                 THEN createAlarm(w2, w1.items[id], qcResult)
                 ELSE w2
        ELSE w

\* mutant: the item is evaluated against the profile its lane has now
processItem_LaneProfile(w, id) ==
    LET item == w.items[id]
    IN  IF item.status # "PROCESSING" THEN w
        ELSE IF requiredSensors(item.beltId) \subseteq completedSensors(item)
        THEN LET qcResult == evaluateQC([item EXCEPT !.profile =
                                            w.belts[item.beltId].profile],
                                        w.profiles)
                 w1 == [w EXCEPT !.items[id].status = qcResult.status,
                                 !.items[id].bucket = qcResult.bucket,
                                 !.items[id].qcReason = qcResult.reason]
                 w2 == countResult(w1, item.beltId, qcResult)
             IN  IF qcResult.status # "OK"
                 THEN createAlarm(w2, w1.items[id], qcResult)
                 ELSE w2
        ELSE w

\* mutant: an alarm is raised for every verdict, OK included
processItem_AlarmAlways(w, id) ==
    LET item == w.items[id]
    IN  IF item.status # "PROCESSING" THEN w
        ELSE IF requiredSensors(item.beltId) \subseteq completedSensors(item)
        THEN LET qcResult == evaluateQC(item, w.profiles)
                 w1 == [w EXCEPT !.items[id].status = qcResult.status,
                                 !.items[id].bucket = qcResult.bucket,
                                 !.items[id].qcReason = qcResult.reason]
                 w2 == countResult(w1, item.beltId, qcResult)
             IN  createAlarm(w2, w1.items[id], qcResult)
        ELSE w

processItem(w, id) ==
    LET item == w.items[id]
    IN  IF item.status # "PROCESSING" THEN w
        ELSE IF requiredSensors(item.beltId) \subseteq completedSensors(item)
        THEN LET qcResult == evaluateQC(item, w.profiles)
                 w1 == [w EXCEPT !.items[id].status = qcResult.status,
                                 !.items[id].bucket = qcResult.bucket,
                                 !.items[id].qcReason = qcResult.reason]
                 w2 == countResult(w1, item.beltId, qcResult)
             IN  IF qcResult.status # "OK"
                 THEN createAlarm(w2, w1.items[id], qcResult)
                 ELSE w2
        ELSE w

\* ------------------------------------------------------------------------
\* Disposition and purge (moveItemToBin, removeItem)
\* ------------------------------------------------------------------------

\* moveItemToBin starts a chain of animateTobin callbacks; the first call runs at
\* once with elapsed = 0.  A chain keeps the item and the bin object it closed over;
\* elapsed is Date.now() - startTime, stale says that bin object is no longer the
\* one in this.bins.
moveItemToBin(w, id) ==
    LET item == w.items[id]
    IN  IF item.bucket \in DOMAIN w.bins
        THEN [w EXCEPT !.binAnims =
                  @ \cup {[item |-> id, bucket |-> item.bucket, elapsed |-> 0,
                           stale |-> FALSE]}]
        ELSE w

\* belt.items.splice(index, 1) for the first index holding itemId
SpliceOut(seq, itemId) ==
    IF \E k \in 1..Len(seq) : seq[k] = itemId
    THEN LET index == Min({k \in 1..Len(seq) : seq[k] = itemId})
         IN  SubSeq(seq, 1, index - 1) \o SubSeq(seq, index + 1, Len(seq))
    ELSE seq

\* mutant: the item is deleted from this.items but stays in its lane's list
removeItem_KeepsLaneList(w, itemId) ==
    IF itemId \in DOMAIN w.items
    THEN [w EXCEPT !.items = [i \in DOMAIN w.items \ {itemId} |-> w.items[i]]]
    ELSE w

removeItem(w, itemId) ==
    IF itemId \in DOMAIN w.items
    THEN LET item == w.items[itemId]
             w1 == IF item.beltId \in DOMAIN w.belts
                   THEN [w EXCEPT !.belts[item.beltId].items = SpliceOut(@, itemId)]
                   ELSE w
         IN  [w1 EXCEPT !.items = [i \in DOMAIN w.items \ {itemId} |-> w.items[i]]]
    ELSE w

\* ------------------------------------------------------------------------
\* One tick of the items (updateItems)
\* ------------------------------------------------------------------------

\* the body of the forEach over this.items, for one item
updateItem(w, id, deltaTime) ==
    IF w.items[id].status = "COMPLETED" THEN w
    ELSE
    LET item == w.items[id]
        moved == [item EXCEPT !.x = @ + item.velocity * deltaTime * simulationSpeed]
        w1 == [w EXCEPT !.items[id] = checkSensorInteractions(moved)]
        w2 == processItem(w1, id)
        w3 == IF w2.items[id].status # "PROCESSING" /\ w2.items[id].x > BinThreshold
              THEN moveItemToBin(w2, id)
              ELSE w2
    IN  IF w3.items[id].x > MaxTransit THEN removeItem(w3, id) ELSE w3

RECURSIVE updateItemsFrom(_, _, _)
updateItemsFrom(w, ids, deltaTime) ==
    IF ids = {} THEN w
    ELSE LET id == Min(ids)
         IN  updateItemsFrom(updateItem(w, id, deltaTime), ids \ {id}, deltaTime)

\* this.items is iterated in insertion order, the order of the item ids
updateItems(w, deltaTime) == updateItemsFrom(w, DOMAIN w.items, deltaTime)

\* ------------------------------------------------------------------------
\* The animateTobin callbacks of a frame (moveItemToBin)
\* ------------------------------------------------------------------------

\* mutant: the callback also clears the item's bin assignment
finishBinAnim_ClearsBucket(w, a) ==
    LET w1 == IF a.stale THEN w
              ELSE [w EXCEPT !.bins[a.bucket].items = Append(@, a.item),
                             !.bins[a.bucket].fillLevel = @ + 1]
    IN  IF a.item \in DOMAIN w1.items
        THEN [w1 EXCEPT !.items[a.item].status = "COMPLETED",
                        !.items[a.item].bucket = "null"]
        ELSE w1

\* the callback of chain a once progress has reached 1
finishBinAnim(w, a) ==
    LET w1 == IF a.stale THEN w
              ELSE [w EXCEPT !.bins[a.bucket].items = Append(@, a.item),
                             !.bins[a.bucket].fillLevel = @ + 1]
    IN  IF a.item \in DOMAIN w1.items
        THEN [w1 EXCEPT !.items[a.item].status = "COMPLETED"]
        ELSE w1

\* callbacks run in the order in which the chains were started
FirstAnim(S) ==
    CHOOSE a \in S : \A o \in S :
        \/ a.elapsed > o.elapsed
        \/ a.elapsed = o.elapsed /\ a.item <= o.item

RECURSIVE finishBinAnims(_, _)
finishBinAnims(w, done) ==
    IF done = {} THEN w
    ELSE LET a == FirstAnim(done)
         IN  finishBinAnims(finishBinAnim(w, a), done \ {a})

\* every pending animateTobin callback runs once in a frame, dt after the last one
runBinAnims(w, dt) ==
    LET aged == {[a EXCEPT !.elapsed = @ + dt] : a \in w.binAnims}
        done == {a \in aged : a.elapsed >= AnimDuration}
    IN  finishBinAnims([w EXCEPT !.binAnims = aged \ done], done)

\* ------------------------------------------------------------------------
\* One animation frame (start: animate, and the animateTobin callbacks)
\* ------------------------------------------------------------------------

World ==
    [items |-> items, belts |-> belts, profiles |-> profiles, bins |-> bins,
     alarms |-> alarms, statistics |-> statistics, binAnims |-> binAnims,
     nextId |-> nextId]

SetWorld(w) ==
    /\ items' = w.items
    /\ belts' = w.belts
    /\ profiles' = w.profiles
    /\ bins' = w.bins
    /\ alarms' = w.alarms
    /\ statistics' = w.statistics
    /\ binAnims' = w.binAnims
    /\ nextId' = w.nextId

\* the passing of dt time units on the clocks Date.now() is compared with
elapse(w, dt) ==
    [w EXCEPT !.belts = [b \in DOMAIN w.belts |->
                            [w.belts[b] EXCEPT !.sinceSpawn =
                                IF @ + dt > SpawnClockCap THEN SpawnClockCap ELSE @ + dt]]]

\* the simulation part of animate, run when the simulation is not paused
simulate(w, deltaTime, draws, scen, estop) ==
    updateItems(spawnItems(w, draws, scen, estop), deltaTime)

\* mutant: the frame runs the simulation whether or not it is paused
animate_IgnoresPause(maxGap) ==
    \E dt \in 1..maxGap :
        LET w0 == runBinAnims(elapse(World, dt), dt)
            spawning == SpawningBelts(w0.belts, w0.profiles, emergencyStop)
        IN  /\ nextId + Cardinality(spawning) <= MaxItems + 1
            /\ \E draws \in [spawning -> Draws(scenarios)] :
                  SetWorld(simulate(w0, sinceTick + dt, draws, scenarios,
                                    emergencyStop))
            /\ sinceTick' = 0
            /\ UNCHANGED <<isPaused, emergencyStop, scenarios, uiLeft, qcIn, qcOut,
                           sequencerVars>>

\* A frame, dt <= maxGap after the last one: the pending animateTobin callbacks,
\* registered in earlier frames, run first, then animate.
animate(maxGap) ==
    \E dt \in 1..maxGap :
        LET w0 == runBinAnims(elapse(World, dt), dt)
            spawning == SpawningBelts(w0.belts, w0.profiles, emergencyStop)
        IN  /\ IF isPaused
               THEN /\ sinceTick + dt <= MaxPause
                    /\ SetWorld(w0)
                    /\ sinceTick' = sinceTick + dt
               ELSE /\ nextId + Cardinality(spawning) <= MaxItems + 1
                    /\ \E draws \in [spawning -> Draws(scenarios)] :
                          SetWorld(simulate(w0, sinceTick + dt, draws, scenarios,
                                            emergencyStop))
                    /\ sinceTick' = 0
            /\ UNCHANGED <<isPaused, emergencyStop, scenarios, uiLeft, qcIn, qcOut,
                           sequencerVars>>

Frame == animate(MaxFrameGap)

\* ------------------------------------------------------------------------
\* User-interface events
\* ------------------------------------------------------------------------

UiEvent ==
    /\ uiLeft > 0
    /\ uiLeft' = uiLeft - 1
    /\ UNCHANGED <<sinceTick, nextId, qcIn, qcOut, sequencerVars>>

toggleBelt(bs, beltId) ==
    IF beltId \in DOMAIN bs THEN [bs EXCEPT ![beltId].enabled = ~@] ELSE bs

ToggleBelt(beltId) ==
    /\ UiEvent
    /\ belts' = toggleBelt(belts, beltId)
    /\ UNCHANGED <<isPaused, emergencyStop, scenarios, profiles, items, bins, alarms,
                   statistics, binAnims>>

\* speeds the speed sliders are set to: 0, 1 m/s and 3 m/s
SliderSpeeds == {0, 20, 60}

\* mutant: the new speed is stored in the belt and not given to its items
setBeltSpeed_BeltOnly(w, beltId, speed) ==
    IF beltId \in DOMAIN w.belts
    THEN [w EXCEPT !.belts[beltId].speed_mps = speed]
    ELSE w

setBeltSpeed(w, beltId, speed) ==
    IF beltId \in DOMAIN w.belts
    THEN [w EXCEPT !.belts[beltId].speed_mps = speed,
                   !.items = [i \in DOMAIN w.items |->
                                 IF w.items[i].beltId = beltId
                                 THEN [w.items[i] EXCEPT !.velocity = speed]
                                 ELSE w.items[i]]]
    ELSE w

SetBeltSpeed(beltId, speed) ==
    /\ UiEvent
    /\ LET w == setBeltSpeed(World, beltId, speed)
       IN  /\ belts' = w.belts
           /\ items' = w.items
    /\ UNCHANGED <<isPaused, emergencyStop, scenarios, profiles, bins, alarms,
                   statistics, binAnims>>

\* the values of the options of a lane's profile selector (in the page's
\* markup): the names of the registered profiles
ProfileOptions == ProfileNames

\* mutant: the lane id is stored as the lane's profile
setBeltProfile_StoresLaneId(bs, beltId, profileName) ==
    IF beltId \in DOMAIN bs THEN [bs EXCEPT ![beltId].profile = beltId] ELSE bs

setBeltProfile(bs, beltId, profileName) ==
    IF beltId \in DOMAIN bs THEN [bs EXCEPT ![beltId].profile = profileName] ELSE bs

SetBeltProfile(beltId, profileName) ==
    /\ UiEvent
    /\ belts' = setBeltProfile(belts, beltId, profileName)
    /\ UNCHANGED <<isPaused, emergencyStop, scenarios, profiles, items, bins, alarms,
                   statistics, binAnims>>

\* the belts after toggleEmergencyStop has set this.emergencyStop to estop
emergencyStopBelts(bs, estop) ==
    [b \in DOMAIN bs |->
        IF estop
        THEN IF bs[b].enabled
             THEN [toggleBelt(bs, b)[b] EXCEPT !.wasRunning = TRUE]
             ELSE bs[b]
        ELSE IF bs[b].wasRunning
             THEN [toggleBelt(bs, b)[b] EXCEPT !.wasRunning = FALSE]
             ELSE bs[b]]

ToggleEmergencyStop ==
    /\ UiEvent
    /\ emergencyStop' = ~emergencyStop
    /\ belts' = emergencyStopBelts(belts, ~emergencyStop)
    /\ UNCHANGED <<isPaused, scenarios, profiles, items, bins, alarms, statistics,
                   binAnims>>

TogglePause ==
    /\ UiEvent
    /\ isPaused' = ~isPaused
    /\ UNCHANGED <<emergencyStop, scenarios, profiles, belts, items, bins, alarms,
                   statistics, binAnims>>

ToggleScenario(scenarioName) ==
    /\ UiEvent
    /\ scenarios' = [scenarios EXCEPT ![scenarioName] = ~@]
    /\ UNCHANGED <<isPaused, emergencyStop, profiles, belts, items, bins, alarms,
                   statistics, binAnims>>

ResetScenarios ==
    /\ UiEvent
    /\ scenarios' = [s \in DOMAIN scenarios |-> FALSE]
    /\ UNCHANGED <<isPaused, emergencyStop, profiles, belts, items, bins, alarms,
                   statistics, binAnims>>

ClearAlarms ==
    /\ UiEvent
    /\ alarms' = <<>>
    /\ UNCHANGED <<isPaused, emergencyStop, scenarios, profiles, belts, items, bins,
                   statistics, binAnims>>

\* contents of the profile form when Save is clicked: the five fields after
\* parseFloat, those of the profile p with one field retyped
ProfileForms(p) ==
    LET loaded == [diameter |-> p.diameter_mm, height |-> p.target_height_mm,
                   tolerance |-> p.height_tol_mm, softnessMin |-> p.softness_range_N[1],
                   softnessMax |-> p.softness_range_N[2]]
    IN  {[loaded EXCEPT !.tolerance = NaN],
         [loaded EXCEPT !.tolerance = -10],
         [loaded EXCEPT !.softnessMax = 150]}

saveProfileChanges(profs, profileName, form) ==
    IF profileName \in DOMAIN profs
    THEN [profs EXCEPT ![profileName] =
            [@ EXCEPT !.diameter_mm = form.diameter,
                      !.target_height_mm = form.height,
                      !.height_tol_mm = form.tolerance,
                      !.softness_range_N = <<form.softnessMin, form.softnessMax>>]]
    ELSE profs

SaveProfileChanges(profileName, form) ==
    /\ UiEvent
    /\ profiles' = saveProfileChanges(profiles, profileName, form)
    /\ UNCHANGED <<isPaused, emergencyStop, scenarios, belts, items, bins, alarms,
                   statistics, binAnims>>

\* initData run again: the profiles, the belts and the bins are replaced by new
\* objects, so the pending animateTobin callbacks hold bins no longer in this.bins
resetConfiguration(w) ==
    [w EXCEPT !.profiles = profilesData,
              !.belts = initBelts,
              !.bins = initBins,
              !.binAnims = {[a EXCEPT !.stale = TRUE] : a \in w.binAnims}]

ResetConfiguration ==
    /\ UiEvent
    /\ LET w == resetConfiguration(World)
       IN  /\ profiles' = w.profiles
           /\ belts' = w.belts
           /\ bins' = w.bins
           /\ binAnims' = w.binAnims
    /\ UNCHANGED <<isPaused, emergencyStop, scenarios, items, alarms, statistics>>

Next ==
    \/ Frame
    \/ \E b \in Belts : ToggleBelt(b)
    \/ \E b \in Belts, speed \in SliderSpeeds : SetBeltSpeed(b, speed)
    \/ \E b \in Belts, p \in ProfileOptions : SetBeltProfile(b, p)
    \/ ToggleEmergencyStop
    \/ TogglePause
    \/ \E s \in ScenarioNames : ToggleScenario(s)
    \/ ResetScenarios
    \/ ClearAlarms
    \/ \E p \in ProfileNames : \E form \in ProfileForms(profiles[p]) :
            SaveProfileChanges(p, form)
    \/ ResetConfiguration

Spec == Init /\ [][Next]_vars

\* ------------------------------------------------------------------------
\* Specification of the line operated on one lane: longer runs, regular frames
\* ------------------------------------------------------------------------

LaneBelt == "B1"

InitLane ==
    /\ InitEngine
    /\ industrial = NotLoaded
    /\ filament = NotLoaded
    /\ uiLeft = MaxLaneEvents
    /\ qcIn = NoInput
    /\ qcOut = NoResult

LaneFrame == animate(MaxLaneFrameGap)

NextLane ==
    \/ LaneFrame
    \/ ToggleBelt(LaneBelt)
    \/ \E speed \in SliderSpeeds : SetBeltSpeed(LaneBelt, speed)
    \/ \E p \in ProfileOptions : SetBeltProfile(LaneBelt, p)
    \/ ToggleEmergencyStop
    \/ TogglePause
    \/ \E s \in ScenarioNames : ToggleScenario(s)
    \/ ResetScenarios
    \/ ClearAlarms
    \/ \E p \in ProfileNames : \E form \in ProfileForms(profiles[p]) :
            SaveProfileChanges(p, form)
    \/ ResetConfiguration

SpecLane == InitLane /\ [][NextLane]_vars

\* ------------------------------------------------------------------------
\* Specification of the stand-alone evaluations of evaluateQC
\* ------------------------------------------------------------------------

InitQC ==
    /\ InitEngine
    /\ industrial = NotLoaded
    /\ filament = NotLoaded
    /\ uiLeft = 0
    /\ qcIn \in QCInputs
    /\ qcOut = NoResult

QCEvaluate ==
    /\ qcOut = NoResult
    /\ qcOut' = evaluateQC(qcIn.item, qcIn.profiles)
    /\ UNCHANGED <<engineVars, qcIn, sequencerVars>>

NextQC == QCEvaluate

SpecQC == InitQC /\ [][NextQC]_vars

\* ------------------------------------------------------------------------
\* Specification of the alarm log: rejected items one after the other
\* (processItem's call of createAlarm), and clearAlarms
\* ------------------------------------------------------------------------

InitAlarm ==
    /\ InitEngine
    /\ industrial = NotLoaded
    /\ filament = NotLoaded
    /\ uiLeft = MaxAlarmClears
    /\ qcIn = NoInput
    /\ qcOut = NoResult

\* an item of lane LaneBelt is found not OK and processItem raises its alarm
RaiseAlarm ==
    /\ nextId <= MaxAlarmItems
    /\ \E draw \in Draws(scenarios) :
          LET item == newItem(World, nextId, LaneBelt,
                              profiles[belts[LaneBelt].profile], draw, scenarios)
              qcResult == evaluateQC(item, profiles)
          IN  /\ qcResult.status # "OK"
              /\ alarms' = createAlarm(World, item, qcResult).alarms
    /\ nextId' = nextId + 1
    /\ UNCHANGED <<sinceTick, isPaused, emergencyStop, scenarios, profiles, belts,
                   items, bins, statistics, binAnims, uiLeft, qcIn, qcOut,
                   sequencerVars>>

NextAlarm ==
    \/ RaiseAlarm
    \/ ClearAlarms

SpecAlarm == InitAlarm /\ [][NextAlarm]_vars

\* ------------------------------------------------------------------------
\* Specification of the lane switches and the emergency stop alone
\* ------------------------------------------------------------------------

InitStop ==
    /\ InitEngine
    /\ industrial = NotLoaded
    /\ filament = NotLoaded
    /\ uiLeft = MaxStopEvents
    /\ qcIn = NoInput
    /\ qcOut = NoResult

NextStop ==
    \/ \E b \in Belts : ToggleBelt(b)
    \/ ToggleEmergencyStop

SpecStop == InitStop /\ [][NextStop]_vars

\* ------------------------------------------------------------------------
\* Properties of evaluateQC (checked under SpecQC)
\* ------------------------------------------------------------------------

\* evaluateQC has been applied to an item whose profile is registered
QCDone == qcOut # NoResult /\ qcIn.item.profile \in DOMAIN qcIn.profiles

QCProfile == qcIn.profiles[qcIn.item.profile]

QCSoftnessOutside ==
    \/ Lt(qcIn.item.softness_N, QCProfile.softness_range_N[1])
    \/ Gt(qcIn.item.softness_N, QCProfile.softness_range_N[2])

QCSoftnessWithin ==
    /\ Le(QCProfile.softness_range_N[1], qcIn.item.softness_N)
    /\ Le(qcIn.item.softness_N, QCProfile.softness_range_N[2])

QCHeightDiff == Sub(qcIn.item.measured_height_mm, QCProfile.target_height_mm)

QCHeightFails == Ge(Abs(QCHeightDiff), QCProfile.height_tol_mm)

QCHeightPasses == Lt(Abs(QCHeightDiff), QCProfile.height_tol_mm)

QCDiameterDiff == Abs(Sub(qcIn.item.diameter_mm, QCProfile.diameter_mm))

QCHeightVerdict == qcOut.status \in {"OVER_HEIGHT", "UNDER_HEIGHT"}

\* C1: an item whose softness lies outside the profile's softness range is
\* classified SOFT_FAIL and sent to YELLOW_BIN, whatever its height and
\* diameter are.
C1_SoftnessDecidesFirst ==
    (QCDone /\ QCSoftnessOutside) =>
        (qcOut.status = "SOFT_FAIL" /\ qcOut.bucket = "YELLOW_BIN")

\* an item failing all three checks has been given the softness verdict
C1_Witness ==
    /\ QCDone /\ QCSoftnessOutside /\ QCHeightFails /\ QCDiameterDiff > DiameterTol
    /\ qcOut.status = "SOFT_FAIL"

\* C2: the checks are made in the order softness, height, size: an item that
\* passes softness and fails both the height and the size check receives the
\* height verdict.
C2_HeightBeforeSize ==
    (QCDone /\ QCSoftnessWithin /\ QCHeightFails /\ Gt(QCDiameterDiff, DiameterTol)) =>
        QCHeightVerdict

\* an item with softness in range, height and diameter off has been evaluated
C2_Witness ==
    /\ QCDone /\ QCSoftnessWithin /\ QCHeightFails /\ Gt(QCDiameterDiff, DiameterTol)
    /\ qcOut.status = "UNDER_HEIGHT"

\* the height verdicts of an item that passed the softness check: a height
\* verdict exactly when |measured - target| >= tolerance, OVER_HEIGHT/GREEN_BIN
\* for a positive difference and UNDER_HEIGHT/RED_BIN for a negative one
QCHeightRule ==
    /\ QCHeightVerdict <=> QCHeightFails
    /\ (QCHeightFails /\ Gt(QCHeightDiff, 0)) =>
           (qcOut.status = "OVER_HEIGHT" /\ qcOut.bucket = "GREEN_BIN")
    /\ (QCHeightFails /\ Lt(QCHeightDiff, 0)) =>
           (qcOut.status = "UNDER_HEIGHT" /\ qcOut.bucket = "RED_BIN")

\* C3: for every profile, an item that passed the softness check fails the
\* height check exactly when |measured - target| >= tolerance, a positive
\* difference giving OVER_HEIGHT/GREEN_BIN and a negative one
\* UNDER_HEIGHT/RED_BIN.
C3_HeightRule ==
    (QCDone /\ QCSoftnessWithin) => QCHeightRule

\* the diameter check is reached: softness and height have passed
QCSizeChecked == QCDone /\ QCSoftnessWithin /\ QCHeightPasses

\* C4 (as stated): an item that passed softness and height and whose diameter
\* differs from the profile's by more than 1 mm is classified SIZE_MISMATCH
\* and sent to RED_BIN.
C4_SizeMismatchName ==
    (QCSizeChecked /\ Gt(QCDiameterDiff, DiameterTol)) =>
        (qcOut.status = "SIZE_MISMATCH" /\ qcOut.bucket = "RED_BIN")

\* C4: an item that passed softness and height and whose diameter differs from
\* the profile's by more than 1 mm is classified SIZE_DOWN and sent to RED_BIN;
\* a difference of exactly 1 mm passes the size check.
C4_SizeRule ==
    /\ (QCSizeChecked /\ Gt(QCDiameterDiff, DiameterTol)) =>
           (qcOut.status = "SIZE_DOWN" /\ qcOut.bucket = "RED_BIN")
    /\ (QCSizeChecked /\ QCDiameterDiff = DiameterTol) =>
           (qcOut.status = "OK" /\ qcOut.bucket = "OK_BIN")

\* an item 2 mm off the profile's diameter has been rejected for its size
C4_Witness ==
    /\ QCSizeChecked /\ QCDiameterDiff = DiameterTol + 1
    /\ qcOut.status = "SIZE_DOWN" /\ qcOut.bucket = "RED_BIN"

\* C5: an item is classified OK and sent to OK_BIN if and only if its softness
\* is within the inclusive range, |measured - target| is strictly less than
\* the tolerance and the diameter is within 1 mm; OK_BIN receives no item with
\* another verdict.
C5_OkIffAllPass ==
    QCDone =>
        /\ (qcOut.status = "OK") <=>
               (QCSoftnessWithin /\ QCHeightPasses /\ Le(QCDiameterDiff, DiameterTol))
        /\ (qcOut.bucket = "OK_BIN") <=> (qcOut.status = "OK")

\* ------------------------------------------------------------------------
\* Properties of the item lifecycle (checked under Spec)
\* ------------------------------------------------------------------------

HoldsAllReadings(item) == requiredSensors(item.beltId) \subseteq completedSensors(item)

\* the items a step classifies
NewlyClassified ==
    {i \in DOMAIN items' :
        /\ items'[i].status # "PROCESSING"
        /\ i \in DOMAIN items => items[i].status = "PROCESSING"}

\* C7: an item is classified at most once and never before it holds a reading
\* of each of the three sensors of its lane; it is classified in the first
\* tick in which it holds the three readings; afterwards its verdict, bin and
\* reason do not change (the status only moves on to COMPLETED) and the
\* statistics are incremented once per classified item.
C7_ClassifiedOnce ==
    [][/\ \A i \in NewlyClassified : HoldsAllReadings(items'[i])
       /\ \A i \in DOMAIN items' :
              items'[i].status = "PROCESSING" => ~HoldsAllReadings(items'[i])
       /\ \A i \in DOMAIN items \cap DOMAIN items' :
              items[i].status # "PROCESSING" =>
                  /\ items'[i].status \in {items[i].status, "COMPLETED"}
                  /\ items'[i].bucket = items[i].bucket
                  /\ items'[i].qcReason = items[i].qcReason
       /\ statistics'.totalItems = statistics.totalItems + Cardinality(NewlyClassified)
      ]_vars

\* a classified item has been ticked on past the bin threshold, long after the
\* tick of its classification, and has been counted once
C7_Witness ==
    \E i \in DOMAIN items :
        /\ items[i].status \notin {"PROCESSING", "COMPLETED"}
        /\ HoldsAllReadings(items[i])
        /\ items[i].x > BinThreshold
        /\ statistics.totalItems = 1

\* C8: an item holds at most one reading per sensor id, and only readings of
\* the sensors of its own lane.
C8_OneReadingPerSensor ==
    \A i \in DOMAIN items :
        LET r == items[i].sensorReadings
        IN  /\ \A k, l \in 1..Len(r) : r[k].sensorId = r[l].sensorId => k = l
            /\ completedSensors(items[i]) \subseteq requiredSensors(items[i].beltId)

\* an item has been stopped inside the window of a sensor that has read it,
\* and the simulation is running: every further tick finds it in the window
C8_Witness ==
    /\ ~isPaused
    /\ \E i \in DOMAIN items :
          /\ items[i].velocity = 0
          /\ items[i].status = "PROCESSING"
          /\ \E k \in 1..Len(sensorPositions) :
                /\ sensorPositions[k].beltId = items[i].beltId
                /\ Abs(items[i].x - sensorPositions[k].x) < SensorTolerance
                /\ HasReading(items[i], sensorPositions[k].id)

\* C9: no item leaves the active set while it is still unclassified
\* (PROCESSING): every item that moves receives its verdict before it is
\* purged.
C9_ClassifiedBeforePurge ==
    [][\A i \in DOMAIN items \ DOMAIN items' : items[i].status # "PROCESSING"]_vars

\* C10: the status of an item only moves forward: a new item is PROCESSING
\* with no bin; PROCESSING is never re-entered, a verdict is never replaced by
\* another verdict, COMPLETED is final and is entered only from a verdict; the
\* bin is assigned with the verdict and never reassigned.
C10_MonotonicStatus ==
    [][/\ \A i \in DOMAIN items' \ DOMAIN items :
              items'[i].status = "PROCESSING" /\ items'[i].bucket = "null"
       /\ \A i \in DOMAIN items \cap DOMAIN items' :
              /\ items[i].status = "PROCESSING" => items'[i].status # "COMPLETED"
              /\ items[i].status = "COMPLETED" => items'[i].status = "COMPLETED"
              /\ items[i].status \notin {"PROCESSING", "COMPLETED"} =>
                     items'[i].status \in {items[i].status, "COMPLETED"}
              /\ items[i].bucket # "null" => items'[i].bucket = items[i].bucket
              /\ items'[i].status = "PROCESSING" <=> items'[i].bucket = "null"
      ]_vars

\* an item has gone through PROCESSING, a verdict and COMPLETED and keeps its bin
C10_Witness ==
    \E i \in DOMAIN items :
        items[i].status = "COMPLETED" /\ items[i].bucket \in DOMAIN bins

\* ------------------------------------------------------------------------
\* Properties of disposal and purge (checked under Spec and SpecLane)
\* ------------------------------------------------------------------------

\* the world after a tick dt after the last one, when no belt spawns
TickOf(dt) ==
    simulate(runBinAnims(elapse(World, dt), dt), sinceTick + dt, <<>>,
             scenarios, emergencyStop)

\* the simulation runs and a frame of any length changes nothing any more
TickStill ==
    /\ ~isPaused
    /\ sinceTick = 0
    /\ \A dt \in 1..MaxFrameGap :
          /\ SpawningBelts(elapse(World, dt).belts, profiles, emergencyStop) = {}
          /\ TickOf(dt) = World

\* C11: a COMPLETED item is eventually removed from the item table and from
\* the item list of its lane by the ticks that follow.  As long as a COMPLETED
\* item is in the table, ticking therefore cannot have come to rest: a state
\* in which every further frame leaves everything as it is keeps the item
\* for ever.
C11_CompletedIsPurged ==
    (\E i \in DOMAIN items : items[i].status = "COMPLETED") => ~TickStill

\* the ids in the item collection of bin b
BinItemSet(b) == {bins[b].items[k] : k \in 1..Len(bins[b].items)}

\* C12: an item is routed to one bin once: the fill count of every bin is the
\* number of distinct items routed to it, no item id occurs twice in a bin and
\* none occurs in two bins.
C12_RoutedOnce ==
    /\ \A b \in DOMAIN bins :
          /\ bins[b].fillLevel = Cardinality(BinItemSet(b))
          /\ Len(bins[b].items) = Cardinality(BinItemSet(b))
    /\ \A b, c \in DOMAIN bins : b # c => BinItemSet(b) \cap BinItemSet(c) = {}

\* a step that is an animation frame, not the handling of a user-interface event
FrameStep == uiLeft' = uiLeft

\* C13: the engine changes state only inside a tick: while the simulation is
\* paused (no tick runs) a frame changes no item status, no bin fill count
\* and no bin membership.
C13_NothingOutsideTicks ==
    [][(isPaused /\ FrameStep) =>
          /\ bins' = bins
          /\ \A i \in DOMAIN items \cap DOMAIN items' :
                items'[i].status = items[i].status
      ]_vars

\* a frame in which the simulation is not paused: a tick
TickStep == ~isPaused /\ FrameStep

\* the ids in the item list of lane b after the step
LaneItemSet(b) == {belts'[b].items[k] : k \in 1..Len(belts'[b].items)}

\* C14: a tick removes every item that it has moved beyond x = 4 from the item
\* table and from the item list of its lane, classified or not, and removes
\* no other item; an item dropped unclassified leaves statistics, lane
\* counters and alarm log as they are.  After every tick no item of the table
\* is beyond x = 4.
C14_PurgeBeyondBound ==
    [][TickStep =>
          /\ \A i \in DOMAIN items' : items'[i].x <= MaxTransit
          /\ \A i \in DOMAIN items \ DOMAIN items' :
                /\ \A b \in DOMAIN belts' : i \notin LaneItemSet(b)
                /\ \E dt \in 1..MaxFrameGap :
                      items[i].x + items[i].velocity * (sinceTick + dt) > MaxTransit
          /\ NewlyClassified = {} =>
                /\ statistics' = statistics
                /\ alarms' = alarms
                /\ \A b \in DOMAIN belts : belts'[b].counters = belts[b].counters
      ]_vars

\* every item created so far has been dropped beyond x = 4, none was classified
C14_Witness ==
    /\ nextId > 1
    /\ items = <<>>
    /\ \A b \in DOMAIN belts : belts[b].items = <<>>
    /\ statistics.totalItems = 0
    /\ alarms = <<>>

\* C15: while the pause flag is set no step, an animation frame or anything
\* else, creates an item, moves an item, records a sensor reading or
\* classifies an item, and the statistics stay as they are; an animation
\* frame also leaves the alarm log and the lanes as they are, but for the time
\* that has passed since each lane's last spawn.
C15_PausedIsNoOp ==
    [][isPaused =>
          /\ nextId' = nextId
          /\ DOMAIN items' = DOMAIN items
          /\ \A i \in DOMAIN items :
                /\ items'[i].x = items[i].x
                /\ items'[i].sensorReadings = items[i].sensorReadings
                /\ items'[i].bucket = items[i].bucket
                /\ items'[i].qcReason = items[i].qcReason
                /\ items[i].status = "PROCESSING" => items'[i].status = "PROCESSING"
          /\ statistics' = statistics
          /\ FrameStep =>
                /\ alarms' = alarms
                /\ \E dt \in 1..MaxFrameGap : belts' = elapse(World, dt).belts
      ]_vars

\* frames have run for MaxPause time units of pause over a moving item that
\* has no verdict yet, on an enabled lane whose next spawn has become due
C15_Witness ==
    /\ isPaused
    /\ ~emergencyStop
    /\ sinceTick = MaxPause
    /\ \E i \in DOMAIN items :
          /\ items[i].status = "PROCESSING"
          /\ items[i].velocity > 0
          /\ belts[items[i].beltId].enabled
          /\ SpawnDue(belts[items[i].beltId])

\* the ids in the item list of lane b before the step
LaneItemsBefore(b) == {belts[b].items[k] : k \in 1..Len(belts[b].items)}

\* C16: no step creates an item on a lane whose enabled flag is false: a step
\* issues at most one new id per enabled lane, every item new in the table is
\* on a lane that is enabled, and the item list of a disabled lane gains no id.
C16_NoSpawnWhenDisabled ==
    [][/\ nextId' - nextId <= Cardinality({b \in DOMAIN belts : belts[b].enabled})
       /\ \A i \in DOMAIN items' \ DOMAIN items : belts[items'[i].beltId].enabled
       /\ \A b \in DOMAIN belts :
             ~belts[b].enabled => LaneItemSet(b) \subseteq LaneItemsBefore(b)
      ]_vars

\* a tick has just run over a disabled lane that has spawned before and whose
\* next spawn is overdue
C16_Witness ==
    /\ ~isPaused
    /\ ~emergencyStop
    /\ sinceTick = 0
    /\ \E b \in DOMAIN belts :
          /\ ~belts[b].enabled
          /\ belts[b].items # <<>>
          /\ belts[b].sinceSpawn = SpawnClockCap
          /\ belts[b].profile \in DOMAIN profiles

\* the youngest item of lane b has travelled further than the lane's belt
\* moves in three spawn intervals: the lane's last spawn is that long ago
LastSpawnLongAgo(b) ==
    /\ belts[b].items # <<>>
    /\ LET i == belts[b].items[Len(belts[b].items)]
       IN  /\ i \in DOMAIN items
           /\ items[i].velocity > 0
           /\ (items[i].x - SpawnX) * belts[b].spawn_per_min
                  > 3 * 120 * items[i].velocity

\* lane b is among the lanes the first tick after this step spawns on, when
\* that tick comes one time unit later
SpawnsOnNextTick(b) ==
    b \in SpawningBelts(elapse([World EXCEPT !.belts = belts'], 1).belts,
                        profiles', emergencyStop')

\* C17: a lane that is switched on again long after its last spawn starts a
\* new spawn interval at that moment: the first tick after the toggle does not
\* spawn on it.
C17_ReenableRestartsCadence ==
    [][\A b \in DOMAIN belts :
          (/\ ~belts[b].enabled
           /\ belts'[b].enabled
           /\ ~isPaused'
           /\ LastSpawnLongAgo(b))
          => ~SpawnsOnNextTick(b)
      ]_vars

\* the spawn test as the specification words it, the boundary included:
\* elapsed >= 60000 / spawnPerMinute ms
SpawnDueInclusive(belt) == belt.sinceSpawn * belt.spawn_per_min >= 120

\* the ids the step has issued that are on the item list of lane b afterwards
NewOnLane(b) == {i \in LaneItemSet(b) : i >= nextId}

C19_EstopHaltsSpawnsOnly ==
    [][(emergencyStop /\ TickStep) =>
          /\ nextId' = nextId
          /\ \E dt \in 1..MaxFrameGap :
                LET w0 == runBinAnims(elapse(World, dt), dt)
                IN  /\ World' = updateItems(w0, sinceTick + dt)
                    /\ \A i \in DOMAIN items :
                          w0.items[i].status # "COMPLETED" =>
                             LET x1 == items[i].x
                                          + items[i].velocity * (sinceTick + dt)
                             IN  IF x1 > MaxTransit THEN i \notin DOMAIN items'
                                 ELSE /\ i \in DOMAIN items'
                                      /\ items'[i].x = x1
      ]_vars

\* during an emergency stop the lane has been switched on again and is due
\* to spawn, a tick has just run, and an item that was on the belt when the
\* stop was set has got its three readings and its verdict
C19_Witness ==
    /\ emergencyStop
    /\ ~isPaused
    /\ sinceTick = 0
    /\ belts[LaneBelt].enabled
    /\ SpawnDue(belts[LaneBelt])
    /\ \E i \in DOMAIN items :
          /\ items[i].status # "PROCESSING"
          /\ Len(items[i].sensorReadings) = 3
          /\ items[i].velocity = initBelts[LaneBelt].speed_mps

\* C20: the alarm log never holds more than 20 entries and is ordered newest
\* first; a new alarm goes to the head and the entries before it follow in
\* their order, each one place further down, so that a full log loses exactly
\* its last, oldest entry.  (Under SpecAlarm the steps that issue an id are
\* those that raise an alarm, and an alarm raised later carries a larger id.)
C20_AlarmLogBounded ==
    [][/\ Len(alarms') <= MaxAlarms
       /\ \A k \in 1..(Len(alarms') - 1) : alarms'[k].itemId > alarms'[k + 1].itemId
       /\ nextId' # nextId =>
             /\ Len(alarms') = IF Len(alarms) < MaxAlarms THEN Len(alarms) + 1
                               ELSE MaxAlarms
             /\ alarms'[1].itemId = nextId
             /\ \A k \in 2..Len(alarms') : alarms'[k] = alarms[k - 1]
      ]_vars

\* the log is full and has lost its two oldest entries
C20_Witness ==
    /\ Len(alarms) = MaxAlarms
    /\ alarms[MaxAlarms].itemId = 3
    /\ alarms[1].itemId = MaxAlarms + 2

\* the items a step classifies with a verdict other than OK
RejectedNow == {i \in NewlyClassified : items'[i].bucket # "OK_BIN"}

\* C21: an animation frame puts one alarm at the head of the log for each item
\* it classifies with a verdict other than OK, carrying the item's id, lane and
\* verdict, and leaves the entries already in the log in their places behind
\* them; a frame that classifies only OK items, or none, leaves the log as it
\* is.  No other step adds an alarm: it leaves the log alone or empties it.
C21_AlarmIffRejected ==
    [][IF FrameStep
       THEN LET n == Cardinality(RejectedNow)
            IN  /\ Len(alarms') = Len(alarms) + n
                /\ \A k \in 1..Len(alarms) : alarms'[k + n] = alarms[k]
                /\ \A i \in RejectedNow :
                      Cardinality({k \in 1..n :
                                      /\ alarms'[k].itemId = i
                                      /\ alarms'[k].beltId = items'[i].beltId
                                      /\ alarms'[k].type = items'[i].status}) = 1
       ELSE alarms' = alarms \/ alarms' = <<>>
      ]_vars

\* two items have been classified, one OK and one not, and the log holds the
\* one alarm of the rejected item
C21_Witness ==
    /\ Len(alarms) = 1
    /\ statistics.totalItems = 2
    /\ statistics.okCount = 1
    /\ \E i \in DOMAIN items :
          /\ items[i].bucket \notin {"null", "OK_BIN"}
          /\ alarms[1].itemId = i
          /\ alarms[1].beltId = items[i].beltId
          /\ alarms[1].type # "OK"

\* the sum over the lanes of the counter named c
RECURSIVE LaneCounterSum(_, _)
LaneCounterSum(c, k) ==
    IF k = 0 THEN 0
    ELSE belts[BeltIds[k]].counters[c] + LaneCounterSum(c, k - 1)

\* C22: each count of the global statistics is the sum of the lanes' counters
\* of that outcome, and totalItems is the sum of the four counts.
C22_StatisticsMatchLanes ==
    /\ statistics.okCount = LaneCounterSum("ok", Len(BeltIds))
    /\ statistics.redCount = LaneCounterSum("red", Len(BeltIds))
    /\ statistics.greenCount = LaneCounterSum("green", Len(BeltIds))
    /\ statistics.yellowCount = LaneCounterSum("yellow", Len(BeltIds))
    /\ statistics.totalItems = statistics.okCount + statistics.redCount
                                 + statistics.greenCount + statistics.yellowCount

\* the counters of a lane and of the statistics, by name
CounterNames == {"ok", "red", "green", "yellow"}

StatisticNames == {"totalItems", "okCount", "redCount", "greenCount", "yellowCount"}

\* C23: no step lowers a count: every count of the global statistics and
\* every outcome counter of every lane is, after the step, at least what it
\* was before.
C23_CountersNeverDecrease ==
    [][/\ \A n \in StatisticNames : statistics'[n] >= statistics[n]
       /\ \A b \in DOMAIN belts : \A c \in CounterNames :
             belts'[b].counters[c] >= belts[b].counters[c]
      ]_vars

\* evaluateQC has been applied to an item whose profile is not registered
QCUnknownProfile == qcOut # NoResult /\ qcIn.item.profile \notin DOMAIN qcIn.profiles

ValidProfile(p) ==
    /\ ~IsNaN(p.diameter_mm)
    /\ ~IsNaN(p.target_height_mm)
    /\ ~IsNaN(p.height_tol_mm)
    /\ ~IsNaN(p.softness_range_N[1])
    /\ ~IsNaN(p.softness_range_N[2])
    /\ p.softness_range_N[1] <= p.softness_range_N[2]

\* C25: every registered profile has finite numeric fields and a softness
\* minimum not above the maximum (an edit that would break this is rejected
\* and the stored profile kept).
C25_ProfilesStayValid == \A n \in DOMAIN profiles : ValidProfile(profiles[n])

NoLane == "B9"

\* C27: in every state, setting the speed of lane b to s gives every item of
\* the table that belongs to lane b the velocity s and changes nothing else of
\* any item (position, readings, status, the velocity of the other lanes'
\* items), stores s as the lane's speed, and leaves everything else as it is;
\* for a lane id that no lane has, nothing changes.
C27_SpeedPropagates ==
    \A s \in SliderSpeeds :
        /\ setBeltSpeed(World, NoLane, s) = World
        /\ \A b \in DOMAIN belts :
              LET w == setBeltSpeed(World, b, s)
              IN  /\ w.belts = [belts EXCEPT ![b].speed_mps = s]
                  /\ DOMAIN w.items = DOMAIN items
                  /\ \A i \in DOMAIN items :
                        w.items[i] = [items[i] EXCEPT !.velocity =
                                         IF items[i].beltId = b THEN s ELSE @]
                  /\ [w EXCEPT !.belts = belts, !.items = items] = World

\* an item on its way, without a verdict yet, has the velocity its lane's
\* slider was set to after the item had already moved at another speed
C27_Witness ==
    \E i \in DOMAIN items :
        /\ items[i].status = "PROCESSING"
        /\ items[i].velocity = 20
        /\ belts[items[i].beltId].speed_mps = 20
        /\ items[i].x > SpawnX
        /\ (items[i].x - SpawnX) % 20 # 0

\* the verdict, bin and reason item i has after the step
VerdictAfter(i) ==
    [status |-> items'[i].status, bucket |-> items'[i].bucket,
     reason |-> items'[i].qcReason]

\* C28: no step changes the profile name of an item in the table, whatever
\* profile its lane is given, and an item is classified with the result
\* evaluateQC gives for the profile the item names.
C28_ItemKeepsProfile ==
    [][/\ \A i \in DOMAIN items \cap DOMAIN items' :
             items'[i].profile = items[i].profile
       /\ \A i \in NewlyClassified :
             i \in DOMAIN items =>
                VerdictAfter(i) = evaluateQC(items[i], profiles)
      ]_vars

\* an item has been classified OK against the profile it was spawned with
\* after its lane had been given another profile, against which its diameter
\* would have failed
C28_Witness ==
    \E i \in DOMAIN items :
        /\ items[i].bucket = "OK_BIN"
        /\ belts[items[i].beltId].profile # items[i].profile
        /\ items[i].diameter_mm = profiles[items[i].profile].diameter_mm
        /\ profiles[belts[items[i].beltId].profile].diameter_mm
              > items[i].diameter_mm + DiameterTol

\* the number of places of lane b's item list that hold the id i
PlacesOnLane(b, i) == Cardinality({k \in 1..Len(belts[b].items) : belts[b].items[k] = i})

\* C29: every item of the table is once in the item list of its lane and in
\* no other lane's list, and every id in a lane's list is an item of the table
\* that belongs to that lane.
C29_TableMatchesLaneLists ==
    /\ \A i \in DOMAIN items : \A b \in DOMAIN belts :
          PlacesOnLane(b, i) = IF items[i].beltId = b THEN 1 ELSE 0
    /\ \A b \in DOMAIN belts : \A i \in LaneItemsBefore(b) :
          i \in DOMAIN items /\ items[i].beltId = b

\* C30: the step that releases the emergency stop leaves enabled exactly the
\* lanes that were enabled when the stop was engaged.  (Under SpecStop these
\* are the lanes whose wasRunning flag is set: engaging the stop sets it for
\* the lanes it switches off, and a lane switch does not touch it.)
C30_ReleaseRestoresLanes ==
    [][(emergencyStop /\ ~emergencyStop') =>
          \A b \in DOMAIN belts : belts'[b].enabled = belts[b].wasRunning
      ]_vars

\* engaging the stop marks exactly the enabled lanes, switches every lane off,
\* and until the release no step changes a mark
WasRunningRecordsEngagement ==
    [][/\ (~emergencyStop /\ emergencyStop') =>
             \A b \in DOMAIN belts :
                /\ belts'[b].wasRunning = belts[b].enabled
                /\ ~belts'[b].enabled
       /\ (emergencyStop /\ emergencyStop') =>
             \A b \in DOMAIN belts : belts'[b].wasRunning = belts[b].wasRunning
      ]_vars

\* ------------------------------------------------------------------------
\* Properties of pause and resume (checked under SpecLane)
\* ------------------------------------------------------------------------

\* C31: time spent paused is not transport time: a tick, the first one after
\* a resume included, advances an item by its velocity times the speed
\* multiplier times one frame interval at most.
C31_PauseIsNotTransport ==
    [][TickStep =>
          \A i \in DOMAIN items \cap DOMAIN items' :
             items'[i].x - items[i].x
                <= items[i].velocity * simulationSpeed * MaxFrameGap
      ]_vars

\* ------------------------------------------------------------------------
\* Properties of the fault-injection scenarios (checked under SpecLane)
\* ------------------------------------------------------------------------

\* the diameter of item it is more than the diameter tolerance away from the
\* default diameter of the profile the item names
OffDiameter(it) ==
    Gt(Abs(Sub(it.diameter_mm, profilesData[it.profile].diameter_mm)), DiameterTol)

\* C32: with the default profiles unedited, an item spawned while the
\* wrongProduct scenario is on gets a diameter more than 1 mm away from its
\* profile's, and an item with such a diameter is never classified OK; no
\* step (a scenario toggle included) changes the diameter or the measured
\* values of an item already in the table.
C32_WrongProductNeverOK ==
    [][/\ (scenarios["wrongProduct"] /\ profiles = profilesData) =>
             \A i \in DOMAIN items' \ DOMAIN items : OffDiameter(items'[i])
       /\ \A i \in DOMAIN items \cap DOMAIN items' :
             /\ items'[i].diameter_mm = items[i].diameter_mm
             /\ items'[i].measured_height_mm = items[i].measured_height_mm
             /\ items'[i].softness_N = items[i].softness_N
       /\ \A i \in NewlyClassified \cap DOMAIN items :
             (profiles = profilesData /\ OffDiameter(items[i])) =>
                 items'[i].status # "OK" /\ items'[i].bucket # "OK_BIN"
      ]_vars

\* with the scenario on and the profiles unedited, an item with one of the
\* wrong diameters has passed the softness and height checks and has been
\* rejected for its size
C32_Witness ==
    /\ scenarios["wrongProduct"]
    /\ profiles = profilesData
    /\ \E i \in DOMAIN items :
          /\ OffDiameter(items[i])
          /\ items[i].status = "SIZE_DOWN"
          /\ items[i].bucket = "RED_BIN"

\* ------------------------------------------------------------------------
\* The tray-cleaning cyclic sequencer (IndustrialSimulation,
\* src/loadStep/app.js).  Times are in 500 ms.  The position of the tray
\* mesh (moveTray) is left to the renderer and is not part of the state.
\* ------------------------------------------------------------------------

\* systemData.system_components: the ids in this.components
ComponentIds ==
    {"loading_station", "water_tank_1", "water_tank_2", "pump_1", "pump_2",
     "cleaning_chamber", "conveyor", "oil_chamber", "oil_tank_main",
     "drying_system", "output_station"}

\* systemData.process_steps; process_steps[k + 1] is the code's process_steps[k]
process_steps ==
    <<[name |-> "Loading", duration |-> 6, components |-> {"loading_station"}],
      [name |-> "Cleaning", duration |-> 16,
       components |-> {"cleaning_chamber", "water_tank_1", "water_tank_2",
                       "pump_1", "pump_2"}],
      [name |-> "Transport", duration |-> 8, components |-> {"conveyor"}],
      [name |-> "Oiling", duration |-> 10,
       components |-> {"oil_chamber", "oil_tank_main"}],
      [name |-> "Drying", duration |-> 20, components |-> {"drying_system"}],
      [name |-> "Output", duration |-> 4, components |-> {"output_station"}]>>

\* values the speed slider is set to: 1.0x and 2.0x
SimulationSpeeds == {1, 2}

\* the longest time a step is scheduled for
LongestStep ==
    CHOOSE d \in {process_steps[k].duration : k \in DOMAIN process_steps} :
        \A k \in DOMAIN process_steps : process_steps[k].duration <= d

\* The simulation after its construction.  timers are the pending setTimeout
\* callbacks of startProcessCycle in the order of their creation, each with the
\* time left until it fires.  Three fields record history and are read by no
\* operation: shown, the time for which currentStep has had its value (up to
\* LongestStep); stepDue, the time the current step was last scheduled for;
\* advances, the number of advances since the last reset (up to one cycle).
IndustrialNew ==
    [isRunning |-> FALSE,
     simulationSpeed |-> 1,
     currentStep |-> 0,
     active |-> {},
     timers |-> <<>>,
     shown |-> 0,
     stepDue |-> 0,
     advances |-> 0]

deactivateAllComponents(s) == [s EXCEPT !.active = {}]

startProcessCycle(s) ==
    IF ~s.isRunning THEN s
    ELSE IF s.currentStep + 1 \notin DOMAIN process_steps
    THEN [s EXCEPT !.currentStep = 0,
                   !.timers = Append(@, [kind |-> "restart", left |-> 2])]
    ELSE LET processStep == process_steps[s.currentStep + 1]
             due == processStep.duration \div s.simulationSpeed
         IN  [deactivateAllComponents(s) EXCEPT
                 !.active = processStep.components \cap ComponentIds,
                 !.timers = Append(@, [kind |-> "advance", left |-> due]),
                 !.stepDue = due]

\* mutant: pausing leaves the components of the step active
toggleSimulation_KeepsActive(s) ==
    LET s1 == [s EXCEPT !.isRunning = ~@]
    IN  IF s1.isRunning THEN startProcessCycle(s1) ELSE s1

toggleSimulation(s) ==
    LET s1 == [s EXCEPT !.isRunning = ~@]
    IN  IF s1.isRunning THEN startProcessCycle(s1) ELSE deactivateAllComponents(s1)

resetSimulation(s) ==
    deactivateAllComponents([s EXCEPT !.isRunning = FALSE,
                                      !.currentStep = 0,
                                      !.shown = 0,
                                      !.advances = 0])

\* mutant: the callback advances the step whether or not the simulation runs
stepTimer_IgnoresRunning(s, timer) ==
    IF timer.kind = "restart" THEN startProcessCycle(s)
    ELSE startProcessCycle(
             [s EXCEPT !.currentStep = (@ + 1) % Len(process_steps),
                       !.shown = 0,
                       !.advances = IF @ < Len(process_steps) THEN @ + 1 ELSE @])

\* the callback of a timer of startProcessCycle
stepTimer(s, timer) ==
    IF timer.kind = "restart" THEN startProcessCycle(s)
    ELSE IF s.isRunning
    THEN startProcessCycle(
             [s EXCEPT !.currentStep = (@ + 1) % Len(process_steps),
                       !.shown = 0,
                       !.advances = IF @ < Len(process_steps) THEN @ + 1 ELSE @])
    ELSE s

\* the sequence seq without its k-th element
DropAt(seq, k) == SubSeq(seq, 1, k - 1) \o SubSeq(seq, k + 1, Len(seq))

\* the timers that are due; they fire in the order of their creation
DueTimers(s) == {k \in DOMAIN s.timers : s.timers[k].left = 0}

IndustrialStep ==
    UNCHANGED <<engineVars, qcIn, qcOut, filament>>

IndustrialEvent ==
    /\ uiLeft > 0
    /\ uiLeft' = uiLeft - 1
    /\ UNCHANGED <<sinceTick, isPaused, emergencyStop, scenarios, profiles, belts,
                   items, bins, alarms, statistics, binAnims, nextId, qcIn, qcOut,
                   filament>>

ToggleSimulation ==
    /\ IndustrialEvent
    /\ industrial' = toggleSimulation(industrial)

ResetSimulation ==
    /\ IndustrialEvent
    /\ industrial' = resetSimulation(industrial)

SetSimulationSpeed(speed) ==
    /\ IndustrialEvent
    /\ industrial' = [industrial EXCEPT !.simulationSpeed = speed]

\* the oldest due timer fires
StepTimerFires ==
    /\ DueTimers(industrial) # {}
    /\ LET k == Min(DueTimers(industrial))
       IN  industrial' = stepTimer([industrial EXCEPT !.timers = DropAt(@, k)],
                                   industrial.timers[k])
    /\ IndustrialStep

\* 500 ms pass and no timer is due
IndustrialWait ==
    /\ DueTimers(industrial) = {}
    /\ industrial' =
          [industrial EXCEPT
              !.timers = [k \in DOMAIN @ |-> [@[k] EXCEPT !.left = @ - 1]],
              !.shown = IF @ < LongestStep THEN @ + 1 ELSE @]
    /\ IndustrialStep

InitIndustrial ==
    /\ InitEngine
    /\ uiLeft = MaxTrayEvents
    /\ qcIn = NoInput
    /\ qcOut = NoResult
    /\ industrial = IndustrialNew
    /\ filament = NotLoaded

NextIndustrial ==
    \/ ToggleSimulation
    \/ ResetSimulation
    \/ \E speed \in SimulationSpeeds : SetSimulationSpeed(speed)
    \/ StepTimerFires
    \/ IndustrialWait

SpecIndustrial == InitIndustrial /\ [][NextIndustrial]_vars

\* the step-advance timers that are pending
AdvanceTimers == {k \in DOMAIN industrial.timers : industrial.timers[k].kind = "advance"}

\* a step in which a timer advances currentStep
StepAdvances ==
    /\ industrial'.isRunning
    /\ industrial.isRunning
    /\ industrial'.currentStep # industrial.currentStep

\* C33: there is at most one pending step-advance timer, and currentStep
\* advances only when the step has been current for the time it was
\* scheduled for (its duration divided by the speed at that time).
C33_OneTimerChain ==
    /\ [](Cardinality(AdvanceTimers) <= 1)
    /\ [][StepAdvances => industrial.shown >= industrial.stepDue]_vars

\* C34: currentStep is always one of 0..5; a step changes it either to
\* (currentStep + 1) mod 6, and then the simulation is running before and
\* after the step, or to 0 by a reset, which leaves the simulation stopped;
\* a pause or a resume leaves it as it is.
C34_StepsInOrder ==
    /\ [](industrial.currentStep \in 0..(Len(process_steps) - 1))
    /\ [][industrial'.currentStep # industrial.currentStep =>
             \/ /\ industrial.isRunning
                /\ industrial'.isRunning
                /\ industrial'.currentStep
                      = (industrial.currentStep + 1) % Len(process_steps)
             \/ /\ ~industrial'.isRunning
                /\ industrial'.currentStep = 0
                /\ uiLeft' # uiLeft
         ]_vars
    /\ [][(industrial'.isRunning # industrial.isRunning /\ industrial'.isRunning) =>
             industrial'.currentStep = industrial.currentStep
         ]_vars

\* the sequencer is running and back at Loading after the six advances of a
\* whole cycle since the last reset, in a run with three clicks or more
C34_Witness ==
    /\ industrial.isRunning
    /\ industrial.currentStep = 0
    /\ industrial.advances = Len(process_steps)
    /\ uiLeft <= MaxTrayEvents - 3

\* C35: while the simulation is running the active components are exactly the
\* components of the current process step, and while it is not running no
\* component is active.
C35_ActiveMatchesStep ==
    industrial.active =
        IF industrial.isRunning
        THEN process_steps[industrial.currentStep + 1].components
        ELSE {}

\* the simulation runs the Cleaning step, with its five components active
C35_Witness ==
    /\ industrial.isRunning
    /\ industrial.currentStep = 1
    /\ Cardinality(industrial.active) = 5

\* ------------------------------------------------------------------------
\* The filament station sequencer (LinearFilamentSimulator,
\* src/wash_process/app.js).  Times are in 500 ms, positions in cm along the
\* line; an interpolated position is rounded down to the centimetre.
\* movementProgress is in fifths: movementSpeed / 10 = 0.8 per second is 2
\* fifths per time unit.  The code reads totalProcessTime and stationStartTime
\* only in their difference, which the model keeps as timeInStation.
\* ------------------------------------------------------------------------

\* this.stationData; stationData[k + 1] is the code's stationData[k]
stationData ==
    <<[position |-> -5000, duration |-> 20],
      [position |-> -3500, duration |-> 16],
      [position |-> -2000, duration |-> 14],
      [position |-> -1000, duration |-> 4],
      [position |->     0, duration |-> 16],
      [position |->  1500, duration |-> 6],
      [position |->  2500, duration |-> 6],
      [position |->  3500, duration |-> 10],
      [position |->  4500, duration |-> 6],
      [position |->  5500, duration |-> 8]>>

\* stationData.length - 1
LastStation == Len(stationData) - 1

\* values the animation-speed slider is set to: 1.0x and 2.0x
AnimationSpeeds == {1, 2}

\* fifths of movementProgress gained per time unit at animation speed 1
ProgressRate == 2

\* movementProgress = 1
ProgressDone == 5

\* the longest time a station requires
LongestDwell ==
    CHOOSE d \in {stationData[k].duration : k \in DOMAIN stationData} :
        \A k \in DOMAIN stationData : stationData[k].duration <= d

ButtonIds == {"start-process", "pause-process", "stop-process",
              "prev-station", "next-station", "complete-station"}

\* the disabled attributes the page's markup gives the buttons
InitialButtons == [ButtonIds -> BOOLEAN]

\* The simulator after its construction, disabled being the disabled
\* attributes of the buttons.  Three fields record history and are read by no
\* operation: dwell, the process time (up to LongestDwell) spent at rest since
\* the tray last arrived at a station or the process was started; visited, the
\* stations the tray has stopped at since the start; lastOp, the handler that
\* ran last.
FilamentNew(disabled) ==
    [isRunning |-> FALSE,
     isPaused |-> FALSE,
     manualMode |-> FALSE,
     animationSpeed |-> 1,
     timeInStation |-> 0,
     currentStationIndex |-> 0,
     trayPosition |-> -5000,
     isMovingBetweenStations |-> FALSE,
     movementStartPos |-> 0,
     movementTargetPos |-> 0,
     movementProgress |-> 0,
     disabled |-> disabled,
     dwell |-> 0,
     visited |-> {},
     lastOp |-> "constructor"]

\* mutant: the step buttons are left enabled
updateStepButtons_NeverDisables(f) ==
    [f EXCEPT !.disabled = [b \in ButtonIds |->
        IF b \in {"prev-station", "next-station", "complete-station"}
        THEN FALSE ELSE f.disabled[b]]]

updateStepButtons(f) ==
    LET isManualAndRunning == f.manualMode /\ f.isRunning
    IN  [f EXCEPT !.disabled = [b \in ButtonIds |->
            CASE b = "prev-station" ->
                    ~isManualAndRunning \/ f.currentStationIndex = 0
              [] b = "next-station" ->
                    ~isManualAndRunning \/ f.currentStationIndex >= LastStation
              [] b = "complete-station" ->
                    ~isManualAndRunning \/ f.isMovingBetweenStations
              [] OTHER -> f.disabled[b]]]

updateControlButtons(f) ==
    updateStepButtons(
        [f EXCEPT !.disabled = [b \in ButtonIds |->
            CASE b = "start-process" -> f.isRunning
              [] b = "pause-process" -> ~f.isRunning
              [] b = "stop-process" -> ~f.isRunning
              [] OTHER -> f.disabled[b]]])

setActiveStation(f, index) == [f EXCEPT !.timeInStation = 0]

\* mutant: a movement in progress keeps its target
moveToStation_KeepsTarget(f, stationIndex) ==
    setActiveStation(
        [f EXCEPT !.isMovingBetweenStations = TRUE,
                  !.movementStartPos = f.trayPosition,
                  !.movementTargetPos =
                      IF f.isMovingBetweenStations THEN @
                      ELSE stationData[stationIndex + 1].position,
                  !.movementProgress = 0],
        stationIndex)

moveToStation(f, stationIndex) ==
    setActiveStation(
        [f EXCEPT !.isMovingBetweenStations = TRUE,
                  !.movementStartPos = f.trayPosition,
                  !.movementTargetPos = stationData[stationIndex + 1].position,
                  !.movementProgress = 0],
        stationIndex)

startProcess(f) ==
    IF f.isRunning THEN f
    ELSE setActiveStation(
             updateControlButtons(
                 [f EXCEPT !.isRunning = TRUE,
                           !.isPaused = FALSE,
                           !.timeInStation = 0,
                           !.currentStationIndex = 0,
                           !.isMovingBetweenStations = FALSE,
                           !.trayPosition = stationData[1].position,
                           !.dwell = 0,
                           !.visited = {0}]),
             0)

pauseProcess(f) ==
    IF ~f.isRunning THEN f
    ELSE updateControlButtons([f EXCEPT !.isPaused = ~@])

stopProcess(f) ==
    updateControlButtons(
        [f EXCEPT !.isRunning = FALSE,
                  !.isPaused = FALSE,
                  !.currentStationIndex = 0,
                  !.isMovingBetweenStations = FALSE])

\* totalProcessTime = 0 leaves a difference that nothing reads before
\* startProcess, moveToStation or an arrival sets it to 0
resetProcess(f) ==
    [stopProcess(f) EXCEPT !.trayPosition = stationData[1].position,
                           !.timeInStation = 0]

\* mutant: the process keeps running after the last station
advanceToNextStation_NeverCompletes(f) ==
    IF f.currentStationIndex < LastStation
    THEN moveToStation([f EXCEPT !.currentStationIndex = @ + 1],
                       f.currentStationIndex + 1)
    ELSE f

advanceToNextStation(f) ==
    IF f.currentStationIndex < LastStation
    THEN moveToStation([f EXCEPT !.currentStationIndex = @ + 1],
                       f.currentStationIndex + 1)
    ELSE updateControlButtons([f EXCEPT !.isRunning = FALSE])

nextStation(f) ==
    IF f.currentStationIndex < LastStation /\ f.manualMode
    THEN advanceToNextStation(f)
    ELSE f

previousStation(f) ==
    IF f.currentStationIndex > 0 /\ f.manualMode /\ ~f.isMovingBetweenStations
    THEN moveToStation([f EXCEPT !.currentStationIndex = @ - 1],
                       f.currentStationIndex - 1)
    ELSE f

completeCurrentStation(f) ==
    IF f.isRunning /\ ~f.isMovingBetweenStations /\ f.manualMode
    THEN advanceToNextStation(f)
    ELSE f

\* lerpVectors(movementStartPos, movementTargetPos, movementProgress)
lerp(from, to, progress) == from + ((to - from) * progress) \div ProgressDone

\* mutant: the arrival leaves stationStartTime at the time of the departure
moveTray_KeepsStartTime(f, delta) ==
    IF ~f.isMovingBetweenStations THEN f
    ELSE LET progress == f.movementProgress + delta * f.animationSpeed * ProgressRate
         IN  IF progress >= ProgressDone
             THEN [f EXCEPT !.movementProgress = ProgressDone,
                            !.isMovingBetweenStations = FALSE,
                            !.trayPosition = f.movementTargetPos,
                            !.dwell = 0,
                            !.visited = @ \cup {f.currentStationIndex}]
             ELSE [f EXCEPT !.movementProgress = progress,
                            !.trayPosition =
                                lerp(f.movementStartPos, f.movementTargetPos, progress)]

\* the first part of updateSimulation: the movement between stations
moveTray(f, delta) ==
    IF ~f.isMovingBetweenStations
    THEN [f EXCEPT !.dwell = IF @ + delta > LongestDwell THEN LongestDwell
                             ELSE @ + delta]
    ELSE LET progress == f.movementProgress + delta * f.animationSpeed * ProgressRate
         IN  IF progress >= ProgressDone
             THEN [f EXCEPT !.movementProgress = ProgressDone,
                            !.isMovingBetweenStations = FALSE,
                            !.trayPosition = f.movementTargetPos,
                            !.timeInStation = 0,
                            !.dwell = 0,
                            !.visited = @ \cup {f.currentStationIndex}]
             ELSE [f EXCEPT !.movementProgress = progress,
                            !.trayPosition =
                                lerp(f.movementStartPos, f.movementTargetPos, progress)]

\* currentStation.duration / this.animationSpeed
requiredTime(index, speed) == stationData[index + 1].duration \div speed

updateSimulation(f, delta) ==
    LET f1 == moveTray(f, delta)
    IN  IF ~f1.manualMode /\ ~f1.isMovingBetweenStations /\ f1.isRunning
           /\ f1.timeInStation >= requiredTime(f1.currentStationIndex, f1.animationSpeed)
        THEN advanceToNextStation(f1)
        ELSE f1

\* one frame, delta after the last one (animate)
filamentAnimate(f, delta) ==
    IF f.isRunning /\ ~f.isPaused
    THEN updateSimulation(
             [f EXCEPT !.timeInStation = IF @ + delta > LongestDwell THEN LongestDwell
                                         ELSE @ + delta],
             delta)
    ELSE f

\* a click on button b runs its handler unless the button is disabled
click(f, b, handled) == IF f.disabled[b] THEN f ELSE handled

\* what lastOp records of a click on button b: the handler that ran, or the
\* button when the click was ignored
clicked(f, b, handler) == IF f.disabled[b] THEN b ELSE handler

FilamentStep ==
    UNCHANGED <<engineVars, qcIn, qcOut, industrial>>

FilamentEvent(op, f) ==
    /\ uiLeft > 0
    /\ uiLeft' = uiLeft - 1
    /\ filament' = [f EXCEPT !.lastOp = op]
    /\ UNCHANGED <<sinceTick, isPaused, emergencyStop, scenarios, profiles, belts,
                   items, bins, alarms, statistics, binAnims, nextId, qcIn, qcOut,
                   industrial>>

StartProcess ==
    FilamentEvent(clicked(filament, "start-process", "startProcess"),
                  click(filament, "start-process", startProcess(filament)))

PauseProcess ==
    FilamentEvent(clicked(filament, "pause-process", "pauseProcess"),
                  click(filament, "pause-process", pauseProcess(filament)))

StopProcess ==
    FilamentEvent(clicked(filament, "stop-process", "stopProcess"),
                  click(filament, "stop-process", stopProcess(filament)))

ResetProcess == FilamentEvent("resetProcess", resetProcess(filament))

SetManualMode(checked) ==
    FilamentEvent("manualMode",
                  updateStepButtons([filament EXCEPT !.manualMode = checked]))

NextStation ==
    FilamentEvent(clicked(filament, "next-station", "nextStation"),
                  click(filament, "next-station", nextStation(filament)))

PreviousStation ==
    FilamentEvent(clicked(filament, "prev-station", "previousStation"),
                  click(filament, "prev-station", previousStation(filament)))

CompleteStation ==
    FilamentEvent(clicked(filament, "complete-station", "completeCurrentStation"),
                  click(filament, "complete-station", completeCurrentStation(filament)))

SetAnimationSpeed(speed) ==
    FilamentEvent("animationSpeed", [filament EXCEPT !.animationSpeed = speed])

FilamentFrame ==
    /\ \E delta \in 1..MaxFilamentFrameGap :
          filament' = [filamentAnimate(filament, delta) EXCEPT !.lastOp = "animate"]
    /\ FilamentStep

InitFilament ==
    /\ InitEngine
    /\ uiLeft = MaxFilamentEvents
    /\ qcIn = NoInput
    /\ qcOut = NoResult
    /\ industrial = NotLoaded
    /\ \E disabled \in InitialButtons : filament = FilamentNew(disabled)

NextFilament ==
    \/ StartProcess
    \/ PauseProcess
    \/ StopProcess
    \/ ResetProcess
    \/ \E checked \in BOOLEAN : SetManualMode(checked)
    \/ NextStation
    \/ PreviousStation
    \/ CompleteStation
    \/ \E speed \in AnimationSpeeds : SetAnimationSpeed(speed)
    \/ FilamentFrame

SpecFilament == InitFilament /\ [][NextFilament]_vars

\* ------------------------------------------------------------------------
\* Specification of the filament sequencer left in automatic mode: the
\* process is started, the speed is changed, and the frames keep coming
\* ------------------------------------------------------------------------

NextFilamentAuto ==
    \/ StartProcess
    \/ \E speed \in AnimationSpeeds : SetAnimationSpeed(speed)
    \/ FilamentFrame

SpecFilamentAuto ==
    InitFilament /\ [][NextFilamentAuto]_vars /\ WF_vars(FilamentFrame)

\* ------------------------------------------------------------------------
\* Properties of the filament sequencer
\* ------------------------------------------------------------------------

\* a frame in which the tray leaves its station or the process completes
FrameAdvances ==
    /\ filament'.lastOp = "animate"
    /\ \/ filament'.currentStationIndex # filament.currentStationIndex
       \/ filament.isRunning /\ ~filament'.isRunning

\* C36: in automatic mode a frame advances the station index, by one, only
\* when the tray is at rest and the process time it has spent at rest since
\* it arrived at the station (movement and pauses not counted) is at least
\* the station's duration divided by the animation speed.
C36_DwellBeforeAdvance ==
    [][FrameAdvances =>
          /\ ~filament.manualMode
          /\ ~filament.isMovingBetweenStations
          /\ filament'.dwell >= requiredTime(filament.currentStationIndex,
                                             filament.animationSpeed)
          /\ filament'.currentStationIndex =
                IF filament.currentStationIndex < LastStation
                THEN filament.currentStationIndex + 1
                ELSE filament.currentStationIndex
      ]_vars

\* in automatic mode the tray has stopped at the first three stations and has
\* just been sent on to the fourth
C36_Witness ==
    /\ filament.isRunning
    /\ ~filament.manualMode
    /\ filament.lastOp = "animate"
    /\ filament.currentStationIndex = 3
    /\ filament.isMovingBetweenStations
    /\ filament.movementProgress = 0
    /\ filament.visited = {0, 1, 2}

\* C37: a process running in automatic mode ends: it comes to a stop with the
\* index at the last station after the tray has stopped at every station; and
\* until then the index moves on by one station at a time, from a station the
\* tray has stopped at.
C37_AutoRunCompletes ==
    /\ filament.isRunning ~>
          (/\ ~filament.isRunning
           /\ filament.currentStationIndex = LastStation
           /\ filament.visited = 0..LastStation)
    /\ [][(filament.isRunning
              /\ filament'.currentStationIndex # filament.currentStationIndex) =>
             /\ filament'.currentStationIndex = filament.currentStationIndex + 1
             /\ filament.currentStationIndex \in filament.visited
         ]_vars

\* the process has ended at the last station with every station visited
C37_Witness ==
    /\ ~filament.isRunning
    /\ filament.lastOp = "animate"
    /\ filament.currentStationIndex = LastStation
    /\ filament.visited = 0..LastStation

\* C38: the station index is one of 0..9, and when the process is running and
\* the tray is not moving between stations the tray is at the position of the
\* station of the current index.
C38_TrayAtStation ==
    /\ filament.currentStationIndex \in 0..LastStation
    /\ (filament.isRunning /\ ~filament.isMovingBetweenStations) =>
          filament.trayPosition
             = stationData[filament.currentStationIndex + 1].position

\* in manual mode the second station was skipped while the tray was on its
\* way to it, and the tray has come to rest at the third
C38_Witness ==
    /\ filament.isRunning
    /\ filament.manualMode
    /\ ~filament.isMovingBetweenStations
    /\ filament.currentStationIndex = 2
    /\ filament.visited = {0, 2}
    /\ filament.trayPosition = stationData[3].position

\* the handlers of the step buttons, and the buttons
StepOps ==
    {"nextStation", "previousStation", "completeCurrentStation",
     "next-station", "prev-station", "complete-station"}

\* C39: a click on a step button while the process is not running changes
\* nothing; stopProcess and resetProcess leave the station index at 0 and the
\* tray not moving, and while the process is not running only a stop or a
\* reset changes either of them.
C39_StepButtonsNeedRunning ==
    [][/\ (uiLeft' # uiLeft /\ filament'.lastOp \in StepOps /\ ~filament.isRunning) =>
             filament' = [filament EXCEPT !.lastOp = filament'.lastOp]
       /\ filament'.lastOp \in {"stopProcess", "resetProcess"} =>
             /\ ~filament'.isRunning
             /\ filament'.currentStationIndex = 0
             /\ ~filament'.isMovingBetweenStations
       /\ (~filament.isRunning /\ ~filament'.isRunning
              /\ filament'.lastOp \notin {"stopProcess", "resetProcess"}) =>
             /\ filament'.currentStationIndex = filament.currentStationIndex
             /\ filament'.isMovingBetweenStations = filament.isMovingBetweenStations
      ]_vars

\* manual mode is on, the process was started and stopped, and Next Station
\* has been clicked since
C39_Witness ==
    /\ ~filament.isRunning
    /\ filament.manualMode
    /\ filament.visited # {}
    /\ filament.lastOp = "next-station"
    /\ filament.currentStationIndex = 0

====
